---- MODULE Spec2Model ----
(***************************************************************************)
(* Ledger / authorization core of the credit-card transaction platform.    *)
(*                                                                         *)
(* The store is the relational schema of src/db/migrations; the engines    *)
(* are TransactionService (authorizeTransaction, processPayment) and       *)
(* SettlementService (settleTransaction).  Every `await` on a repository   *)
(* call is a point where another request may run, so a handler is a chain  *)
(* of actions, one per store call; the code between two awaits is atomic   *)
(* (single-threaded event loop).                                           *)
(*                                                                         *)
(* Money is counted in whole units (the code's dollars); webhook amounts   *)
(* arrive in hundredths of a unit and are divided by 100 on entry.         *)
(***************************************************************************)
EXTENDS Integers, FiniteSets, Sequences, TLC

\* ---------------------------------------------------------------- bounds
MaxRequests == 3        \* requests delivered in one behaviour
MaxInFlight == 2        \* requests that may be between two awaits at once
CreditLimit == 4        \* credit_limit of the active account
StartBalance == 0       \* current_balance of the active account at start
MaxRuns == 2            \* statement generation runs in one behaviour
MaxTime == 2            \* last instant of the clock
MaxBatch == 2           \* longest list of a bulk settlement call
MaxAggregated == 3      \* most transactions in the table when totals are computed
MaxCreditDollars == 1   \* credit limits of the credit-check inputs, in dollars
MonthLength == 2        \* instants in one calendar month (billing period)

NULL == "NULL"             \* SQL NULL / JavaScript undefined of a text value
NoAmount == -1             \* the same for a numeric value (amounts are >= 0)
NullRow == [id |-> NULL]   \* "no row": what a lookup returns when nothing matches
NoTime == -1               \* a timestamp column that is NULL

Epoch == -1                \* new Date(0): earlier than every instant of the clock

Requests == 1..MaxRequests
Runs == 1..MaxRuns
AccountIds == {"a1", "a2", "a3", "a4", "a5"}

\* webhook payloads the acquirer delivers; a redelivery repeats the payload
\* (amount in units here, sent as cents)
webhooks ==
  { [id |-> "t1", card_id |-> "c1", amount |-> 3],
    [id |-> "t2", card_id |-> "c4", amount |-> 1],
    [id |-> "t3", card_id |-> "c4", amount |-> 3],
    [id |-> "t4", card_id |-> "c2", amount |-> 3],
    [id |-> "t5", card_id |-> "c3", amount |-> 1],
    [id |-> "t6", card_id |-> "cX", amount |-> 1] }

TxnIds == {w.id : w \in webhooks}
webhookOf(id) == CHOOSE w \in webhooks : w.id = id

\* settlement events { transaction_id, final_amount? }
settlements ==
  { [transaction_id |-> "t1", final_amount |-> NoAmount],
    [transaction_id |-> "t1", final_amount |-> 0],
    [transaction_id |-> "t1", final_amount |-> 1],
    [transaction_id |-> "t1", final_amount |-> 3],
    [transaction_id |-> "t2", final_amount |-> 3],
    [transaction_id |-> "t4", final_amount |-> 1] }

\* payments { account_id, amount }
payments ==
  { [account_id |-> "a1", amount |-> 1],
    [account_id |-> "aX", amount |-> 1] }

\* cents of the webhook payload for an amount in units
Cents(a) == a * 100

\* ------------------------------------------------------------ the schema
\* cards rows (the core only reads them)
cards ==
  [c1 |-> [id |-> "c1", account_id |-> "a1", status |-> "active", spending_limit |-> NoAmount],
   c2 |-> [id |-> "c2", account_id |-> "a1", status |-> "frozen", spending_limit |-> NoAmount],
   c3 |-> [id |-> "c3", account_id |-> "a2", status |-> "active", spending_limit |-> NoAmount],
   c4 |-> [id |-> "c4", account_id |-> "a1", status |-> "active", spending_limit |-> 1]]

\* accounts rows at start
InitAccounts ==
  [a1 |-> [id |-> "a1", credit_limit |-> CreditLimit, current_balance |-> StartBalance,
           status |-> "active", statement_closing_day |-> 1],
   a2 |-> [id |-> "a2", credit_limit |-> CreditLimit, current_balance |-> 1,
           status |-> "suspended", statement_closing_day |-> 1],
   a3 |-> [id |-> "a3", credit_limit |-> CreditLimit, current_balance |-> 0,
           status |-> "active", statement_closing_day |-> 1],
   a4 |-> [id |-> "a4", credit_limit |-> CreditLimit, current_balance |-> 0,
           status |-> "active", statement_closing_day |-> 2],
   a5 |-> [id |-> "a5", credit_limit |-> CreditLimit, current_balance |-> 0,
           status |-> "closed", statement_closing_day |-> 1]]

TransactionTypes == {"purchase", "payment", "refund", "fee", "interest", "adjustment"}
TransactionStatuses == {"pending", "posted", "declined", "reversed"}

VARIABLES
  accounts,       \* accounts table: id -> row
  transactions,   \* transactions table: id -> row (domain = ids present)
  pc,             \* per request: position in its handler
  req,            \* per request: the call, its arguments, and isDuplicate
  loc,            \* per request: the handler's local variables
  res,            \* per request: what the handler returned / threw
  charged,        \* per transaction id: balance writes made by its commit step
  posts,          \* per transaction id: status writes that took it pending -> posted
  repository,     \* which AccountRepository module the server loaded
  creditCheck,    \* one evaluation of the credit check on stored decimals
  bulk,           \* the bulkSettleTransactions call: list, position, counters
  batch,          \* the generateMonthlyStatements run: accounts, position, counters
  now,            \* the clock (Date.now(), CURRENT_TIMESTAMP)
  statements,     \* statements table: id -> row
  gpc,            \* per generation run: position in generateStatementForAccount
  gloc,           \* per generation run: its local variables
  gres,           \* per generation run: what it returned
  limiter,        \* the RateLimiter: its store, its clock, what it answered
  hook            \* the webhook signature check: its clock, the last request and answer

\* the deployment and the clock; the billing state
env == <<repository, now, creditCheck, bulk, batch, limiter, hook>>
billing == <<statements, gpc, gloc, gres>>

vars == <<accounts, transactions, pc, req, loc, res, charged, posts, env, billing>>

\* JavaScript truthiness of a number-or-undefined value
Truthy(v) == v # NoAmount /\ v # 0

Max(a, b) == IF a >= b THEN a ELSE b

\* the sum of f over S
RECURSIVE Sum(_, _)
Sum(f, S) == IF S = {} THEN 0
             ELSE LET x == CHOOSE y \in S : TRUE IN f[x] + Sum(f, S \ {x})

NoReq == [op |-> "none", id |-> NULL, card_id |-> NULL, amount |-> NoAmount,
          account_id |-> NULL, isDuplicate |-> FALSE]
NoLoc == [previousBalance |-> NoAmount, newBalance |-> NoAmount, account_id |-> NULL,
          reason |-> NULL, transaction |-> NullRow]
NoRes == [kind |-> "none", ok |-> FALSE, reason |-> NULL, transaction |-> NULL]

InFlight == {r \in Requests : pc[r] \notin {"idle", "done"}}

\* generation runs between two awaits
Running == {g \in Runs : gpc[g] \notin {"idle", "done"}}

\* a request arrives: requests are numbered in arrival order
CanStart(r) ==
  /\ pc[r] = "idle"
  /\ \A q \in Requests : q < r => pc[q] # "idle"
  /\ Cardinality(InFlight) + Cardinality(Running) < MaxInFlight

\* the handler of request r returns value v / throws
Return(r, v) ==
  /\ pc' = [pc EXCEPT ![r] = "done"]
  /\ res' = [res EXCEPT ![r] = v]
  /\ loc' = [loc EXCEPT ![r] = NoLoc]

\* { approved | settled: ok, reason?, transaction? }
Value(ok, reason, txn) == [kind |-> "value", ok |-> ok, reason |-> reason, transaction |-> txn]
\* a rejected promise
Throw(reason) == [kind |-> "throw", ok |-> FALSE, reason |-> reason, transaction |-> NULL]

\* ------------------------------------------------------- repositories
\* the idempotency lookup answering "not seen" for every id
existsNever(id) == FALSE

\* TransactionRepository.exists
exists(id) == id \in DOMAIN transactions

\* TransactionRepository.findById
findById(id) == IF id \in DOMAIN transactions THEN transactions[id] ELSE NullRow

\* CardRepository.findById
cardFindById(card_id) == IF card_id \in DOMAIN cards THEN cards[card_id] ELSE NullRow

\* AccountRepository modules the server can be running with: "sql" is
\* src/repositories/accountRepository.js (raw SQL on db/connection); "knex"
\* is the repository the test suites exercise (they seed accounts through
\* knex on an in-memory database and read them back through
\* AccountRepository, which the raw SQL module on its own connection
\* cannot serve)
Repositories == {"sql", "knex"}

\* account_status of a row selected by the raw SQL repository: SELECT *
\* returns the column `status`, there is no column or alias account_status
sqlAccountStatus(row) == NULL

\* account_status of a row returned by the knex repository: the status of
\* the account, which step 3 of the authorization requires to be active
knexAccountStatus(row) == row.status

\* account.account_status as authorizeTransaction reads it (step 3)
account_status(row) ==
  IF repository = "sql" THEN sqlAccountStatus(row) ELSE knexAccountStatus(row)

\* AccountRepository.findById
accountFindById(account_id) ==
  IF account_id \in DOMAIN accounts
    THEN [id |-> account_id,
          credit_limit |-> accounts[account_id].credit_limit,
          current_balance |-> accounts[account_id].current_balance,
          account_status |-> account_status(accounts[account_id])]
    ELSE NullRow

\* constraints of the transactions table that an INSERT must satisfy
InsertAllowed(row) ==
  /\ row.id \notin DOMAIN transactions                 \* primary key
  /\ row.card_id # NULL                                \* card_id NOT NULL
  /\ row.card_id \in DOMAIN cards                      \* foreign key cards.id
  /\ row.account_id \in DOMAIN accounts                \* foreign key accounts.id
  /\ row.transaction_type \in TransactionTypes         \* valid_transaction_type
  /\ row.status \in TransactionStatuses                \* valid_status

\* an INSERT that stores the balance before the transaction in both snapshots
NewRowStaleSnapshot(d) ==
  [id |-> d.id, card_id |-> d.card_id, account_id |-> d.account_id,
   amount |-> d.amount, transaction_type |-> d.transaction_type,
   status |-> d.status, previous_balance |-> d.previous_balance,
   new_balance |-> d.previous_balance, decline_reason |-> d.decline_reason,
   statement_id |-> NULL, posted_at |-> NoTime, created_at |-> now]

\* the row TransactionRepository.create inserts for transactionData
\* (created_at defaults to the time of the INSERT)
NewRow(d) ==
  [id |-> d.id, card_id |-> d.card_id, account_id |-> d.account_id,
   amount |-> d.amount, transaction_type |-> d.transaction_type,
   status |-> d.status, previous_balance |-> d.previous_balance,
   new_balance |-> d.new_balance, decline_reason |-> d.decline_reason,
   statement_id |-> NULL, posted_at |-> NoTime, created_at |-> now]

\* TransactionRepository.create: the table after the INSERT
create(d) == transactions @@ (d.id :> NewRow(d))

\* an accounts table without the valid_balance check
BalanceUnchecked(newBalance) == TRUE

\* constraint of the accounts table that an UPDATE of the balance must satisfy
BalanceAllowed(newBalance) == newBalance >= 0           \* check valid_balance

\* AccountRepository.updateBalance: the table after the UPDATE
updateBalance(account_id, newBalance) ==
  [accounts EXCEPT ![account_id].current_balance = newBalance]

\* an UPDATE of the status that never stamps posted_at
updateStatusNoStamp(id, status) ==
  IF id \in DOMAIN transactions
    THEN [transactions EXCEPT ![id].status = status]
    ELSE transactions

\* TransactionRepository.updateStatus: the table after the UPDATE
updateStatus(id, status) ==
  IF id \in DOMAIN transactions
    THEN [transactions EXCEPT ![id].status = status,
                              ![id].posted_at =
                                 IF status = "posted" THEN now ELSE @]
    ELSE transactions

\* ------------------------------- TransactionService.authorizeTransaction
\* steps 1-2: idempotency check, then card lookup and card status
AuthorizeExists(r, w) ==
  /\ CanStart(r)
  /\ req' = [req EXCEPT ![r] = [NoReq EXCEPT !.op = "authorize", !.id = w.id,
                                             !.card_id = w.card_id,
                                             !.amount = Cents(w.amount),
                                             !.isDuplicate = exists(w.id)]]
  /\ IF exists(w.id)
       THEN /\ pc' = [pc EXCEPT ![r] = "auth_duplicate"]
            /\ UNCHANGED <<loc, res>>
       ELSE LET card == cardFindById(w.card_id) IN
            IF card = NullRow
              THEN Return(r, Value(FALSE, "Card not found", NULL))
              ELSE IF card.status # "active"
                THEN /\ pc' = [pc EXCEPT ![r] = "decline_account"]
                     /\ loc' = [loc EXCEPT ![r] =
                           [NoLoc EXCEPT !.reason = "Card status is " \o card.status,
                                         !.account_id = card.account_id]]
                     /\ UNCHANGED res
                ELSE /\ pc' = [pc EXCEPT ![r] = "auth_account"]
                     /\ loc' = [loc EXCEPT ![r] =
                           [NoLoc EXCEPT !.account_id = card.account_id]]
                     /\ UNCHANGED res
  /\ UNCHANGED <<accounts, transactions, charged, posts, env, billing>>

\* a recorded decision that counts pending transactions only as approved
recordedDecisionPendingOnly(existingTxn) == existingTxn.status = "pending"

\* step 1, duplicate: existingTxn.status === 'pending' || ... === 'posted'
recordedDecision(existingTxn) == existingTxn.status \in {"pending", "posted"}

\* step 1, duplicate: re-fetch the recorded transaction and return its decision
AuthorizeDuplicate(r) ==
  /\ pc[r] = "auth_duplicate"
  /\ LET existingTxn == findById(req[r].id) IN
       Return(r, Value(recordedDecision(existingTxn), NULL, existingTxn.id))
  /\ UNCHANGED <<accounts, transactions, req, charged, posts, env, billing>>

\* step 3: !account || account.account_status !== 'active'
accountNotActive(account) ==
  account = NullRow \/ account.account_status # "active"

\* step 4: availableCredit < amount / 100
insufficientCredit(account, amountInDollars) ==
  account.credit_limit - account.current_balance < amountInDollars

\* a card limit check that also declines an amount equal to the limit
exceedsSpendingLimitInclusive(card, amountInDollars) ==
  Truthy(card.spending_limit) /\ amountInDollars >= card.spending_limit

\* step 5: card.spending_limit && amount / 100 > card.spending_limit
exceedsSpendingLimit(card, amountInDollars) ==
  Truthy(card.spending_limit) /\ amountInDollars > card.spending_limit

\* steps 3-5 with the card limit checked before the available credit
declineReasonLimitFirst(account, card, amountInDollars) ==
  IF accountNotActive(account) THEN "Account not active"
  ELSE IF exceedsSpendingLimit(card, amountInDollars) THEN "Exceeds card spending limit"
  ELSE IF insufficientCredit(account, amountInDollars) THEN "Insufficient credit"
  ELSE NULL

\* steps 3-5 in the order of the code: the reason of the first check that
\* fails (the text up to the figures), NULL when all pass
declineReason(account, card, amountInDollars) ==
  IF accountNotActive(account) THEN "Account not active"
  ELSE IF insufficientCredit(account, amountInDollars) THEN "Insufficient credit"
  ELSE IF exceedsSpendingLimit(card, amountInDollars) THEN "Exceeds card spending limit"
  ELSE NULL

\* steps 3-5 and the arithmetic of step 6: account status, credit, card limit
AuthorizeFindAccount(r) ==
  /\ pc[r] = "auth_account"
  /\ LET account == accountFindById(loc[r].account_id)
         card == cardFindById(req[r].card_id)
         amountInDollars == req[r].amount \div 100
         reason == declineReason(account, card, amountInDollars)
     IN
       IF reason # NULL
         THEN /\ pc' = [pc EXCEPT ![r] = "decline_account"]
              /\ loc' = [loc EXCEPT ![r].reason = reason]
         ELSE /\ pc' = [pc EXCEPT ![r] = "auth_create"]
              /\ loc' = [loc EXCEPT ![r].previousBalance = account.current_balance,
                                    ![r].newBalance =
                                       account.current_balance + amountInDollars]
  /\ UNCHANGED <<accounts, transactions, req, res, charged, posts, env, billing>>

\* step 6, first write: insert the pending transaction
AuthorizeCreate(r) ==
  /\ pc[r] = "auth_create"
  /\ LET d == [id |-> req[r].id, card_id |-> req[r].card_id,
               account_id |-> loc[r].account_id,
               amount |-> req[r].amount \div 100,
               transaction_type |-> "purchase", status |-> "pending",
               previous_balance |-> loc[r].previousBalance,
               new_balance |-> loc[r].newBalance, decline_reason |-> NULL]
     IN
       IF InsertAllowed(NewRow(d))
         THEN /\ transactions' = create(d)
              /\ pc' = [pc EXCEPT ![r] = "auth_update"]
              /\ loc' = [loc EXCEPT ![r].transaction = NewRow(d)]
              /\ UNCHANGED res
         ELSE \* the INSERT throws; the handler's catch block answers
              /\ Return(r, Value(FALSE, "Internal server error", NULL))
              /\ UNCHANGED transactions
  /\ UNCHANGED <<accounts, req, charged, posts, env, billing>>

\* step 6, second write: store the balance computed from the earlier read
AuthorizeUpdateBalance(r) ==
  /\ pc[r] = "auth_update"
  /\ IF BalanceAllowed(loc[r].newBalance)
       THEN /\ accounts' = updateBalance(loc[r].account_id, loc[r].newBalance)
            /\ charged' = [charged EXCEPT ![req[r].id] = @ + 1]
            /\ Return(r, Value(TRUE, NULL, loc[r].transaction.id))
       ELSE /\ Return(r, Value(FALSE, "Internal server error", NULL))
            /\ UNCHANGED <<accounts, charged>>
  /\ UNCHANGED <<transactions, req, posts, env, billing>>

\* _declineTransaction with a card: read the account for the audit row
DeclineFindAccount(r) ==
  /\ pc[r] = "decline_account"
  /\ LET account == accountFindById(loc[r].account_id) IN
       /\ pc' = [pc EXCEPT ![r] = "decline_create"]
       /\ loc' = [loc EXCEPT ![r].previousBalance = account.current_balance,
                             ![r].newBalance = account.current_balance]
  /\ UNCHANGED <<accounts, transactions, req, res, charged, posts, env, billing>>

\* an audit record that keeps the column default status 'pending'
declineRecordDefaultStatus(r) ==
  [id |-> req[r].id, card_id |-> req[r].card_id,
   account_id |-> loc[r].account_id,
   amount |-> req[r].amount \div 100,
   transaction_type |-> "purchase", status |-> "pending",
   previous_balance |-> loc[r].previousBalance,
   new_balance |-> loc[r].newBalance, decline_reason |-> loc[r].reason]

\* _declineTransaction: the transactionData of the audit record
declineRecord(r) ==
  [id |-> req[r].id, card_id |-> req[r].card_id,
   account_id |-> loc[r].account_id,
   amount |-> req[r].amount \div 100,
   transaction_type |-> "purchase", status |-> "declined",
   previous_balance |-> loc[r].previousBalance,
   new_balance |-> loc[r].newBalance, decline_reason |-> loc[r].reason]

\* _declineTransaction: insert the declined audit row and return the decline
DeclineCreate(r) ==
  /\ pc[r] = "decline_create"
  /\ LET d == declineRecord(r)
     IN
       IF InsertAllowed(NewRow(d))
         THEN /\ transactions' = create(d)
              /\ Return(r, Value(FALSE, loc[r].reason, NULL))
         ELSE \* the INSERT throws inside the promise that was returned without
              \* await: the handler's try/catch does not apply, the call rejects
              /\ Return(r, Throw("constraint violation"))
              /\ UNCHANGED transactions
  /\ UNCHANGED <<accounts, req, charged, posts, env, billing>>

\* ---------------------------------- SettlementService.settleTransaction
\* a status test that turns away posted transactions only
notPendingPostedOnly(transaction) == transaction.status = "posted"

\* step 2: transaction.status !== 'pending'
notPending(transaction) == transaction.status # "pending"

\* steps 1-3: find the transaction, require pending, compare final_amount
settleTransaction(r, s) ==
  /\ CanStart(r)
  /\ req' = [req EXCEPT ![r] = [NoReq EXCEPT !.op = "settle", !.id = s.transaction_id,
                                             !.amount = s.final_amount]]
  /\ LET transaction == findById(s.transaction_id)
         final_amount == s.final_amount
     IN
       IF transaction = NullRow
         THEN Return(r, Value(FALSE, "Transaction not found", NULL))
         ELSE IF notPending(transaction)
           THEN Return(r, Value(FALSE, "Transaction already " \o transaction.status, NULL))
           ELSE LET hasAmountChange ==
                      Truthy(final_amount) /\ final_amount # transaction.amount
                IN /\ pc' = [pc EXCEPT ![r] =
                               IF hasAmountChange THEN "adjust_account" ELSE "settle_post"]
                   /\ loc' = [loc EXCEPT ![r] =
                               [NoLoc EXCEPT !.transaction = transaction,
                                             !.account_id = transaction.account_id]]
                   /\ UNCHANGED res
  /\ UNCHANGED <<accounts, transactions, charged, posts, billing>>
  /\ UNCHANGED <<repository, limiter, hook, now, creditCheck, batch>>

\* POST /webhooks/settlements: one settleTransaction call
SettleFind(r, s) == settleTransaction(r, s) /\ UNCHANGED bulk

\* _handleAuthorizationAdjustment: difference, account read, new balance
AdjustFindAccount(r) ==
  /\ pc[r] = "adjust_account"
  /\ LET difference == req[r].amount - loc[r].transaction.amount
         account == accountFindById(loc[r].account_id)
     IN /\ pc' = [pc EXCEPT ![r] = "adjust_update"]
        /\ loc' = [loc EXCEPT ![r].previousBalance = account.current_balance,
                              ![r].newBalance = account.current_balance + difference]
  /\ UNCHANGED <<accounts, transactions, req, res, charged, posts, env, billing>>

\* _handleAuthorizationAdjustment: write the adjusted balance
AdjustUpdateBalance(r) ==
  /\ pc[r] = "adjust_update"
  /\ IF BalanceAllowed(loc[r].newBalance)
       THEN /\ accounts' = updateBalance(loc[r].account_id, loc[r].newBalance)
            /\ pc' = [pc EXCEPT ![r] = "adjust_status"]
            /\ UNCHANGED <<loc, res>>
       ELSE \* the UPDATE throws; settleTransaction's catch block answers
            /\ Return(r, Value(FALSE, "Internal server error", NULL))
            /\ UNCHANGED accounts
  /\ UNCHANGED <<transactions, req, charged, posts, env, billing>>

\* _handleAuthorizationAdjustment: updateStatus(transaction.id, 'pending')
AdjustKeepPending(r) ==
  /\ pc[r] = "adjust_status"
  /\ transactions' = updateStatus(loc[r].transaction.id, "pending")
  /\ pc' = [pc EXCEPT ![r] = "settle_post"]
  /\ UNCHANGED <<accounts, req, loc, res, charged, posts, env, billing>>

\* step 4: updateStatus(transaction_id, 'posted') and the settled answer
SettlePost(r) ==
  /\ pc[r] = "settle_post"
  /\ transactions' = updateStatus(req[r].id, "posted")
  /\ posts' = [posts EXCEPT ![req[r].id] =
                 IF findById(req[r].id).status = "pending" THEN @ + 1 ELSE @]
  /\ Return(r, Value(TRUE, NULL, req[r].id))
  /\ UNCHANGED <<accounts, req, charged, env, billing>>

\* ------------------------------ SettlementService.bulkSettleTransactions
\* no bulk call made yet; `called` keeps the settlementData of each
\* settleTransaction call, `outcomes` its result.settled, and
\* `pendingAtStart` the ids that were pending when the bulk call was made
NoBulk ==
  [pc |-> "idle", list |-> <<>>, i |-> 0, cur |-> 0, settled |-> 0, failed |-> 0,
   called |-> <<>>, outcomes |-> <<>>, pendingAtStart |-> {}]

\* the settlement requests a bulk call can list
bulkSettlements ==
  {s \in settlements :
     \/ s.transaction_id = "t1" /\ s.final_amount \in {NoAmount, 1}
     \/ s.transaction_id \in {"t2", "t4"}}

\* settlementDataArray: lists of at most MaxBatch requests
BulkLists ==
  UNION {[1..n -> bulkSettlements] : n \in 0..MaxBatch}

\* the loop is left when the list is exhausted: { settled_count, failed_count }
BulkAdvance(b) ==
  IF b.i > Len(b.list) THEN [b EXCEPT !.pc = "done"] ELSE [b EXCEPT !.pc = "loop"]

\* let settled = 0; let failed = 0; the for loop is entered
BulkStart(list) ==
  /\ bulk.pc = "idle"
  /\ InFlight = {}
  /\ Len(list) <= Cardinality({r \in Requests : pc[r] = "idle"})
  /\ bulk' = BulkAdvance([NoBulk EXCEPT
                 !.list = list, !.i = 1,
                 !.pendingAtStart =
                    {id \in DOMAIN transactions : transactions[id].status = "pending"}])
  /\ UNCHANGED <<accounts, transactions, pc, req, loc, res, charged, posts,
                 repository, limiter, hook, now, creditCheck, batch, billing>>

\* await this.settleTransaction(settlementData) for the next item
BulkCall(r) ==
  /\ bulk.pc = "loop"
  /\ settleTransaction(r, bulk.list[bulk.i])
  /\ bulk' = [bulk EXCEPT !.pc = "await", !.cur = r,
                           !.called = Append(@, bulk.list[bulk.i])]

\* a loop that stops at the first item that fails
BulkCollectAbortOnFailure ==
  /\ bulk.pc = "await"
  /\ pc[bulk.cur] = "done"
  /\ LET ok == res[bulk.cur].kind = "value" /\ res[bulk.cur].ok IN
       bulk' = IF ok
                 THEN BulkAdvance([bulk EXCEPT
                        !.i = @ + 1, !.settled = @ + 1,
                        !.outcomes = Append(@, ok)])
                 ELSE [bulk EXCEPT !.pc = "done", !.failed = @ + 1,
                                   !.outcomes = Append(@, ok)]
  /\ UNCHANGED <<accounts, transactions, pc, req, loc, res, charged, posts,
                 repository, limiter, hook, now, creditCheck, batch, billing>>

\* the call returned: result.settled ? settled++ : failed++, next item
BulkCollect ==
  /\ bulk.pc = "await"
  /\ pc[bulk.cur] = "done"
  /\ LET ok == res[bulk.cur].kind = "value" /\ res[bulk.cur].ok IN
       bulk' = BulkAdvance([bulk EXCEPT
                 !.i = @ + 1,
                 !.settled = IF ok THEN @ + 1 ELSE @,
                 !.failed = IF ok THEN @ ELSE @ + 1,
                 !.outcomes = Append(@, ok)])
  /\ UNCHANGED <<accounts, transactions, pc, req, loc, res, charged, posts,
                 repository, limiter, hook, now, creditCheck, batch, billing>>

\* --------------------------------------- TransactionService.processPayment
\* the id `payment_${uuidv4()}` of the payment made by request r
PaymentId(r) == "payment_" \o ToString(r)

\* a missing account answered as a decline instead of an error
accountNotFoundDeclined == Value(FALSE, "Account not found", NULL)

\* throw new Error('Account not found')
accountNotFound == Throw("Account not found")

\* account lookup and the new balance
PayFindAccount(r, p) ==
  /\ CanStart(r)
  /\ req' = [req EXCEPT ![r] = [NoReq EXCEPT !.op = "pay", !.id = PaymentId(r),
                                             !.account_id = p.account_id,
                                             !.amount = p.amount]]
  /\ LET account == accountFindById(p.account_id) IN
       IF account = NullRow
         THEN Return(r, accountNotFound)
         ELSE /\ pc' = [pc EXCEPT ![r] = "pay_create"]
              /\ loc' = [loc EXCEPT ![r] =
                    [NoLoc EXCEPT !.account_id = p.account_id,
                                  !.previousBalance = account.current_balance,
                                  !.newBalance = Max(0, account.current_balance - p.amount)]]
              /\ UNCHANGED res
  /\ UNCHANGED <<accounts, transactions, charged, posts, env, billing>>

\* insert the posted payment row (card_id: null), then write the balance.
\* transactions.card_id is NOT NULL, so the INSERT is refused and the
\* balance write after it is never reached.
PayCreate(r) ==
  /\ pc[r] = "pay_create"
  /\ LET d == [id |-> req[r].id, card_id |-> NULL,
               account_id |-> req[r].account_id,
               amount |-> 0 - req[r].amount,
               transaction_type |-> "payment", status |-> "posted",
               previous_balance |-> loc[r].previousBalance,
               new_balance |-> loc[r].newBalance, decline_reason |-> NULL]
     IN
       IF InsertAllowed(NewRow(d))
         THEN /\ transactions' = create(d)
              /\ accounts' = updateBalance(req[r].account_id, loc[r].newBalance)
              /\ Return(r, [kind |-> "value", ok |-> TRUE, reason |-> NULL,
                            transaction |-> d.id])
         ELSE \* the INSERT throws and processPayment has no catch: it rejects
              /\ Return(r, Throw("constraint violation"))
              /\ UNCHANGED <<accounts, transactions>>
  /\ UNCHANGED <<req, charged, posts, env, billing>>

\* ------------------------- StatementService.generateStatementForAccount
NoGloc == [account_id |-> NULL, closing_balance |-> NoAmount, since |-> Epoch,
           previous_balance |-> 0, transactions |-> {}, statementId |-> NULL]
NoGres == [generated |-> FALSE, reason |-> NULL, statement |-> NULL]

\* a run starts: runs are numbered in the order they start
CanStartRun(g) ==
  /\ gpc[g] = "idle"
  /\ \A h \in Runs : h < g => gpc[h] # "idle"
  /\ Cardinality(InFlight) + Cardinality(Running) < MaxInFlight

\* the run g returns v
GenReturn(g, v) ==
  /\ gpc' = [gpc EXCEPT ![g] = "done"]
  /\ gres' = [gres EXCEPT ![g] = v]
  /\ gloc' = [gloc EXCEPT ![g] = NoGloc]

\* no batch run made yet; `attempted` keeps the account id of each
\* generateStatementForAccount call and `outcomes` its result.generated
NoBatch ==
  [pc |-> "idle", today |-> 0, eligible |-> <<>>, i |-> 0, cur |-> 0,
   generated |-> 0, skipped |-> 0, attempted |-> <<>>, outcomes |-> <<>>]

\* uuidv4() of the statement created by the k-th call of the batch run
BatchStatementId(k) == "statement_b" \o ToString(k)

\* uuidv4() of the statement created by run g: a fresh id for every call
StatementId(g) ==
  IF batch.pc = "await" /\ batch.cur = g
    THEN BatchStatementId(Len(batch.attempted))
    ELSE "statement_" \o ToString(g)

\* _getFirstDayOfMonth: the first instant of the month the clock is in
FirstDayOfMonth(t) == (t \div MonthLength) * MonthLength

\* the billing period (calendar month) an instant lies in
Period(t) == t \div MonthLength

\* statements of an account
StatementsOf(account_id) ==
  {id \in DOMAIN statements : statements[id].account_id = account_id}

\* an existing-statement check that misses a statement dated on the first
\* instant of the month
existingStatementAfterFirstDay(account_id) ==
  \E id \in StatementsOf(account_id) :
    statements[id].statement_date > FirstDayOfMonth(now)

\* the existing-statement check: a statement of the account dated on or
\* after the first day of the current month
existingStatement(account_id) ==
  \E id \in StatementsOf(account_id) :
    statements[id].statement_date >= FirstDayOfMonth(now)

\* _getLastStatement: the statement of the account with the latest date
lastStatementOf(account_id) ==
  IF StatementsOf(account_id) = {} THEN NullRow
  ELSE statements[CHOOSE id \in StatementsOf(account_id) :
         \A other \in StatementsOf(account_id) :
           statements[other].statement_date <= statements[id].statement_date]

\* a window query that does not look at the status
postedSinceAnyStatus(account_id, since) ==
  {id \in DOMAIN transactions :
     /\ transactions[id].account_id = account_id
     /\ transactions[id].created_at > since}

\* the window query: posted transactions of the account created after since
postedSince(account_id, since) ==
  {id \in DOMAIN transactions :
     /\ transactions[id].account_id = account_id
     /\ transactions[id].status = "posted"
     /\ transactions[id].created_at > since}

\* totals that add the payments with their sign
totalOfSigned(ids, type) ==
  Sum([id \in ids |->
         IF transactions[id].transaction_type # type THEN 0
         ELSE transactions[id].amount], ids)

\* _calculateTotals for one transaction type (payments by absolute value)
totalOf(ids, type) ==
  Sum([id \in ids |->
         IF transactions[id].transaction_type # type THEN 0
         ELSE IF type = "payment" THEN Max(transactions[id].amount, 0 - transactions[id].amount)
         ELSE transactions[id].amount], ids)

\* Math.max(25, account.current_balance * 0.02): the floor in units and the
\* rate in percent
MinimumPaymentFloor == 25
MinimumPaymentPercent == 2

\* a minimum payment without the floor
minimumPaymentNoFloor(balance) ==
  (Cents(balance) * MinimumPaymentPercent) \div 100

\* minimumPayment, in cents, for a balance in whole units
minimumPayment(balance) ==
  Max(Cents(MinimumPaymentFloor), (Cents(balance) * MinimumPaymentPercent) \div 100)

\* unique(account_id, statement_date) of the statements table
StatementInsertAllowed(row) ==
  /\ row.id \notin DOMAIN statements
  /\ row.account_id \in DOMAIN accounts
  /\ ~\E id \in StatementsOf(row.account_id) :
        statements[id].statement_date = row.statement_date

\* read the account row
generateStatementForAccount(g, account_id) ==
  /\ CanStartRun(g)
  /\ IF account_id \notin DOMAIN accounts
       THEN GenReturn(g, [NoGres EXCEPT !.reason = "Account not found"])
       ELSE /\ gpc' = [gpc EXCEPT ![g] = "gen_existing"]
            /\ gloc' = [gloc EXCEPT ![g] =
                  [NoGloc EXCEPT !.account_id = account_id,
                                 !.closing_balance = accounts[account_id].current_balance]]
            /\ UNCHANGED gres
  /\ UNCHANGED <<accounts, transactions, pc, req, loc, res, charged, posts,
                 repository, limiter, hook, now, creditCheck, bulk, statements>>

\* generateStatementForAccount called on its own
GenFindAccount(g, account_id) ==
  generateStatementForAccount(g, account_id) /\ UNCHANGED batch

\* the check for a statement of this period
GenCheckExisting(g) ==
  /\ gpc[g] = "gen_existing"
  /\ IF existingStatement(gloc[g].account_id)
       THEN GenReturn(g, [NoGres EXCEPT !.reason = "Statement already exists"])
       ELSE /\ gpc' = [gpc EXCEPT ![g] = "gen_last"]
            /\ UNCHANGED <<gloc, gres>>
  /\ UNCHANGED <<accounts, transactions, pc, req, loc, res, charged, posts,
                 env, statements>>

\* the last statement: start of the window and the previous balance
GenLastStatement(g) ==
  /\ gpc[g] = "gen_last"
  /\ LET lastStatement == lastStatementOf(gloc[g].account_id) IN
       gloc' = [gloc EXCEPT
         ![g].since = IF lastStatement = NullRow THEN Epoch
                      ELSE lastStatement.statement_date,
         ![g].previous_balance = IF lastStatement = NullRow THEN 0
                                 ELSE lastStatement.closing_balance]
  /\ gpc' = [gpc EXCEPT ![g] = "gen_aggregate"]
  /\ UNCHANGED <<accounts, transactions, pc, req, loc, res, charged, posts,
                 env, statements, gres>>

\* the window query
GenAggregate(g) ==
  /\ gpc[g] = "gen_aggregate"
  /\ gloc' = [gloc EXCEPT ![g].transactions =
                postedSince(gloc[g].account_id, gloc[g].since)]
  /\ gpc' = [gpc EXCEPT ![g] = "gen_insert"]
  /\ UNCHANGED <<accounts, transactions, pc, req, loc, res, charged, posts,
                 env, statements, gres>>

\* totals and the INSERT of the statement row, dated new Date()
GenInsert(g) ==
  /\ gpc[g] = "gen_insert"
  /\ LET row == [id |-> StatementId(g),
                 account_id |-> gloc[g].account_id,
                 statement_date |-> now,
                 closing_balance |-> gloc[g].closing_balance,
                 previous_balance |-> gloc[g].previous_balance,
                 total_purchases |-> totalOf(gloc[g].transactions, "purchase"),
                 total_payments |-> totalOf(gloc[g].transactions, "payment"),
                 total_fees |-> totalOf(gloc[g].transactions, "fee"),
                 total_interest |-> totalOf(gloc[g].transactions, "interest"),
                 minimum_payment_due |-> minimumPayment(gloc[g].closing_balance),
                 counted |-> gloc[g].transactions]
     IN
       IF StatementInsertAllowed(row)
         THEN /\ statements' = statements @@ (row.id :> row)
              /\ gpc' = [gpc EXCEPT ![g] = "gen_link"]
              /\ gloc' = [gloc EXCEPT ![g].statementId = row.id]
              /\ UNCHANGED gres
         ELSE \* the INSERT throws; the catch block answers with error.message
              /\ GenReturn(g, [NoGres EXCEPT !.reason = "UNIQUE constraint failed"])
              /\ UNCHANGED statements
  /\ UNCHANGED <<accounts, transactions, pc, req, loc, res, charged, posts, env>>

\* a link UPDATE without its whereIn: every row gets the statement id
linkTransactionsAll(ids, statementId) ==
  [id \in DOMAIN transactions |->
     [transactions[id] EXCEPT !.statement_id = statementId]]

\* knex('transactions').whereIn('id', ids).update({ statement_id }): the table
\* after the UPDATE
linkTransactions(ids, statementId) ==
  [id \in DOMAIN transactions |->
     IF id \in ids
       THEN [transactions[id] EXCEPT !.statement_id = statementId]
       ELSE transactions[id]]

\* link the aggregated transactions to the statement and return it
GenLink(g) ==
  /\ gpc[g] = "gen_link"
  /\ transactions' = linkTransactions(gloc[g].transactions, gloc[g].statementId)
  /\ GenReturn(g, [generated |-> TRUE, reason |-> NULL,
                   statement |-> gloc[g].statementId])
  /\ UNCHANGED <<accounts, pc, req, loc, res, charged, posts, env, statements>>

\* ----------------------------- StatementService.generateMonthlyStatements
\* new Date().getDate(): the day of the month of an instant
DayOfMonth(t) == (t % MonthLength) + 1

\* a query for the accounts closing today that does not look at the status
eligibleAccountsAnyStatus(today) ==
  {a \in DOMAIN accounts : accounts[a].statement_closing_day = today}

\* knex('accounts').where('statement_closing_day', today).where('status', 'active')
eligibleAccounts(today) ==
  {a \in DOMAIN accounts :
     /\ accounts[a].statement_closing_day = today
     /\ accounts[a].status = "active"}

\* the orders in which the query (it has no ORDER BY) can return a set of rows
Orders(S) ==
  {o \in [1..Cardinality(S) -> S] : \A j, k \in DOMAIN o : o[j] = o[k] => j = k}

\* the loop goes to its next account, or is over
BatchAdvance(b) ==
  IF b.i > Len(b.eligible) THEN [b EXCEPT !.pc = "done"] ELSE [b EXCEPT !.pc = "loop"]

\* today, the eligible accounts, generated = 0, skipped = 0
BatchStart ==
  /\ batch.pc = "idle"
  /\ LET today == DayOfMonth(now) IN
       \E order \in Orders(eligibleAccounts(today)) :
         batch' = BatchAdvance([NoBatch EXCEPT !.today = today,
                                               !.eligible = order, !.i = 1])
  /\ UNCHANGED <<accounts, transactions, pc, req, loc, res, charged, posts,
                 repository, limiter, hook, now, creditCheck, bulk, billing>>

\* await this.generateStatementForAccount(account.id) for the next account
BatchCall(g) ==
  /\ batch.pc = "loop"
  /\ generateStatementForAccount(g, batch.eligible[batch.i])
  /\ batch' = [batch EXCEPT !.pc = "await", !.cur = g,
                            !.attempted = Append(@, batch.eligible[batch.i])]

\* a loop that gives up at the first account whose statement is not generated
BatchCollectAbortOnFailure ==
  /\ batch.pc = "await"
  /\ gpc[batch.cur] = "done"
  /\ LET ok == gres[batch.cur].generated IN
       batch' = IF ok
                  THEN BatchAdvance([batch EXCEPT
                         !.i = @ + 1, !.generated = @ + 1,
                         !.outcomes = Append(@, TRUE)])
                  ELSE [batch EXCEPT !.pc = "done", !.skipped = @ + 1,
                                     !.outcomes = Append(@, FALSE)]
  /\ gpc' = [gpc EXCEPT ![batch.cur] = "idle"]
  /\ gres' = [gres EXCEPT ![batch.cur] = NoGres]
  /\ UNCHANGED <<accounts, transactions, pc, req, loc, res, charged, posts,
                 repository, limiter, hook, now, creditCheck, bulk, statements, gloc>>

\* the call has returned: generated++ or skipped++, then the next account;
\* the call's frame is gone and its slot can serve the next call
BatchCollect ==
  /\ batch.pc = "await"
  /\ gpc[batch.cur] = "done"
  /\ LET ok == gres[batch.cur].generated IN
       batch' = BatchAdvance([batch EXCEPT
                  !.i = @ + 1,
                  !.generated = IF ok THEN @ + 1 ELSE @,
                  !.skipped = IF ok THEN @ ELSE @ + 1,
                  !.outcomes = Append(@, ok)])
  /\ gpc' = [gpc EXCEPT ![batch.cur] = "idle"]
  /\ gres' = [gres EXCEPT ![batch.cur] = NoGres]
  /\ UNCHANGED <<accounts, transactions, pc, req, loc, res, charged, posts,
                 repository, limiter, hook, now, creditCheck, bulk, statements, gloc>>

\* time passes
Tick ==
  /\ now < MaxTime
  /\ now' = now + 1
  /\ UNCHANGED <<accounts, transactions, pc, req, loc, res, charged, posts,
                 repository, limiter, hook, creditCheck, bulk, batch, billing>>

\* ------------------------------------------- the credit check on doubles
\* JavaScript numbers are IEEE 754 doubles.  A positive double is the record
\* [zero |-> FALSE, e, m]: m is the significand, Precision bits with
\* m[1] = 1, and the value is the sum of m[i] * 2^(e - i + 1); money
\* amounts are far from the ends of the exponent range.
Precision == 53

Zero == [zero |-> TRUE, e |-> 0, m |-> <<>>]

Zeros(k) == [i \in 1..k |-> 0]

\* floor(log2(num / den)) for positive integers
RECURSIVE Log2Floor(_, _)
Log2Floor(num, den) ==
  IF num >= 2 * den THEN Log2Floor(num, 2 * den) + 1
  ELSE IF num < den THEN Log2Floor(2 * num, den) - 1
  ELSE 0

\* 2^k modulo den
RECURSIVE PowMod(_, _)
PowMod(k, den) ==
  IF k = 0 THEN 1 % den
  ELSE LET h == PowMod(k \div 2, den) IN
       (h * h * (IF k % 2 = 1 THEN 2 ELSE 1)) % den

\* the remainder left after k bits of the binary expansion of r / den,
\* 0 <= r < den
DivRem(r, den, k) == (r * PowMod(k, den)) % den

\* the first k bits of the binary expansion of r / den, 0 <= r < den
DivBits(r, den, k) ==
  [i \in 1..k |-> (2 * DivRem(r, den, i - 1)) \div den]

\* bits + 1 on a fixed width (all ones wrap to all zeros): a bit flips when
\* every bit after it is 1
Increment(bits) ==
  [i \in 1..Len(bits) |->
     IF \A j \in (i + 1)..Len(bits) : bits[j] = 1 THEN 1 - bits[i] ELSE bits[i]]

\* round to nearest, ties to even: bits (bits[1] = 1, leading bit of weight
\* 2^e) followed by a non-zero tail iff sticky, to a double
RoundToDouble(bits, sticky, e) ==
  IF Len(bits) <= Precision
    THEN [zero |-> FALSE, e |-> e, m |-> bits \o Zeros(Precision - Len(bits))]
    ELSE LET kept == SubSeq(bits, 1, Precision)
             guard == bits[Precision + 1]
             rest == sticky \/ \E i \in (Precision + 2)..Len(bits) : bits[i] = 1
             up == guard = 1 /\ (rest \/ kept[Precision] = 1)
         IN
         IF ~up THEN [zero |-> FALSE, e |-> e, m |-> kept]
         ELSE IF \A i \in 1..Precision : kept[i] = 1
           THEN [zero |-> FALSE, e |-> e + 1, m |-> <<1>> \o Zeros(Precision - 1)]
           ELSE [zero |-> FALSE, e |-> e, m |-> Increment(kept)]

\* cents / 100 and the decimal(12,2) value cents / 100 read as a number: the
\* double nearest to it
toDouble(cents) ==
  IF cents = 0 THEN Zero
  ELSE LET e == Log2Floor(cents, 100)
           num == IF e < 0 THEN cents * 2^(-e) ELSE cents
           den == IF e < 0 THEN 100 ELSE 100 * 2^e
           r == num - den
       IN RoundToDouble(<<1>> \o DivBits(r, den, Precision),
                        DivRem(r, den, Precision) # 0, e)

\* a - b on bit sequences of one length, a >= b: position i borrows when
\* the bits after it are less in a than in b
SubBits(a, b) ==
  [i \in 1..Len(a) |->
     LET borrow == IF \E j \in (i + 1)..Len(a) :
                        /\ a[j] < b[j]
                        /\ \A k \in (i + 1)..(j - 1) : a[k] = b[k]
                     THEN 1 ELSE 0
     IN (a[i] - b[i] - borrow + 2) % 2]

\* bits without its leading zeros
StripZeros(bits) ==
  LET ones == {i \in 1..Len(bits) : bits[i] = 1} IN
    IF ones = {} THEN <<>>
    ELSE SubSeq(bits, CHOOSE i \in ones : \A j \in ones : i <= j, Len(bits))

\* x < y for doubles >= 0
doubleLess(x, y) ==
  IF y.zero THEN FALSE
  ELSE IF x.zero THEN TRUE
  ELSE IF x.e # y.e THEN x.e < y.e
  ELSE \E i \in 1..Precision :
         /\ x.m[i] < y.m[i]
         /\ \A j \in 1..(i - 1) : x.m[j] = y.m[j]

\* x - y for doubles x >= y >= 0: the exact difference, rounded
doubleMinus(x, y) ==
  IF y.zero THEN x
  ELSE LET shift == x.e - y.e
           diff == SubBits(x.m \o Zeros(shift), Zeros(shift) \o y.m)
           bits == StripZeros(diff)
       IN IF Len(bits) = 0 THEN Zero
          ELSE RoundToDouble(bits, FALSE, x.e - (Len(diff) - Len(bits)))

\* step 4 on the numbers the handler holds: credit_limit and current_balance
\* as read from the accounts table, amount in cents from the webhook
availableCreditBelow(credit_limit, current_balance, amount) ==
  doubleLess(doubleMinus(toDouble(credit_limit), toDouble(current_balance)),
             toDouble(amount))

\* the credit check not yet evaluated
NoCreditCheck ==
  [credit_limit |-> 0, current_balance |-> 0, amount |-> 0,
   pc |-> "idle", declined |-> FALSE]

\* stored amounts in cents: a credit limit of whole dollars, a balance within
\* it, a positive requested amount
CreditChecks ==
  {[credit_limit |-> 100 * l, current_balance |-> b, amount |-> a,
    pc |-> "check", declined |-> FALSE] :
     l \in 1..MaxCreditDollars, b \in 0..(100 * MaxCreditDollars),
     a \in 1..(100 * MaxCreditDollars)}

\* step 4 of authorizeTransaction, evaluated
CreditCheck ==
  /\ creditCheck.pc = "check"
  /\ creditCheck' =
       [creditCheck EXCEPT
          !.pc = "done",
          !.declined = availableCreditBelow(creditCheck.credit_limit,
                                            creditCheck.current_balance,
                                            creditCheck.amount)]
  /\ UNCHANGED <<accounts, transactions, pc, req, loc, res, charged, posts,
                 repository, limiter, hook, now, bulk, batch, billing>>

\* -------------------------------------------------------- rate limiting
\* rateLimiter({ windowMs, max }) on one server; Date.now() is limiter.clock
RateMax == 2               \* options.max
WindowMs == 2              \* options.windowMs
MaxClock == 4              \* the clock stops here
MaxCount == 4              \* requests of one IP within one window

IPs == {"ip1", "ip2"}

\* store.get(ip) === undefined
NoEntry == [count |-> 0, resetTime |-> -1]

\* nothing answered yet
NoAnswer == [ip |-> NULL, next |-> FALSE, status |-> 0, limit |-> 0, remaining |-> 0]

\* passed / blocked count the answers per IP since its entry was created
NoLimiter ==
  [clock |-> 0,
   store |-> [ip \in IPs |-> NoEntry],
   passed |-> [ip \in IPs |-> 0],
   blocked |-> [ip \in IPs |-> 0],
   last |-> NoAnswer]

\* a request: the X-Forwarded-For list (empty when the header is absent) and req.ip
RateRequests ==
  {[forwarded |-> f, ip |-> i] :
     f \in {<<>>, <<"ip1">>, <<"ip2", "ip1">>}, i \in IPs}

\* req.headers['x-forwarded-for']?.split(',')[0].trim() || req.ip
getClientIP(request) ==
  IF request.forwarded # <<>> THEN Head(request.forwarded) ELSE request.ip

\* !entry || now > entry.resetTime
expired(entry) == entry = NoEntry \/ limiter.clock > entry.resetTime

\* getEntry(ip): the stored entry, or a new one when none is stored or it expired
getEntry(ip) ==
  IF expired(limiter.store[ip])
    THEN [count |-> 0, resetTime |-> limiter.clock + WindowMs]
    ELSE limiter.store[ip]

\* a limit check that already blocks the max-th request
rateLimitedAtMax(entry) == entry.count >= RateMax
\* entry.count > this.max
rateLimited(entry) == entry.count > RateMax

\* the middleware, one request: count it, set the headers, answer 429 or call next()
RateLimit ==
  \E request \in RateRequests :
    LET ip == getClientIP(request)
        fresh == expired(limiter.store[ip])
        entry == [getEntry(ip) EXCEPT !.count = @ + 1]
        blocked == rateLimited(entry)
    IN /\ entry.count <= MaxCount
       /\ limiter' =
            [limiter EXCEPT
               !.store[ip] = entry,
               !.passed[ip] = (IF fresh THEN 0 ELSE @) + (IF blocked THEN 0 ELSE 1),
               !.blocked[ip] = (IF fresh THEN 0 ELSE @) + (IF blocked THEN 1 ELSE 0),
               !.last = [ip |-> ip, next |-> ~blocked,
                         status |-> IF blocked THEN 429 ELSE 0,
                         limit |-> RateMax,
                         remaining |-> Max(0, RateMax - entry.count)]]
       /\ UNCHANGED <<accounts, transactions, pc, req, loc, res, charged, posts,
                      repository, now, creditCheck, bulk, batch, hook, billing>>

\* cleanup(): the interval callback deletes every expired entry
RateCleanup ==
  /\ \E ip \in IPs : limiter.store[ip] # NoEntry /\ expired(limiter.store[ip])
  /\ limiter' =
       [limiter EXCEPT
          !.store = [ip \in IPs |->
                       IF expired(limiter.store[ip]) THEN NoEntry ELSE limiter.store[ip]]]
  /\ UNCHANGED <<accounts, transactions, pc, req, loc, res, charged, posts,
                 repository, now, creditCheck, bulk, batch, hook, billing>>

\* Date.now() advances
RateTick ==
  /\ limiter.clock < MaxClock
  /\ limiter' = [limiter EXCEPT !.clock = @ + 1]
  /\ UNCHANGED <<accounts, transactions, pc, req, loc, res, charged, posts,
                 repository, now, creditCheck, bulk, batch, hook, billing>>

\* ---------------------------------------------------- webhook signature
TIMESTAMP_TOLERANCE == 300 \* seconds
HexDigestLength == 64      \* characters of a SHA-256 digest in hex
MaxHookTicks == 1          \* seconds the server clock advances

\* Math.floor(Date.now() / 1000) when the first request arrives: late enough
\* that every timestamp a sender can put in the header is positive
HookStart == 2 * TIMESTAMP_TOLERANCE

WEBHOOK_SECRET == "test_webhook_secret_key_12345"

\* process.env.WEBHOOK_SECRET: unset, or the configured secret
Secrets == {NULL, WEBHOOK_SECRET}

Payloads == {"txn_123 amount 100", "txn_123 amount 9999"}

\* the X-Webhook-Timestamp header: absent, a text parseInt cannot read, or decimal digits
NoTimestamp == [present |-> FALSE, numeric |-> FALSE, value |-> 0]
TextTimestamp == [present |-> TRUE, numeric |-> FALSE, value |-> 0]
DecimalTimestamp(n) == [present |-> TRUE, numeric |-> TRUE, value |-> n]

\* seconds between the sender's timestamp and the server clock
TimestampOffsets ==
  {-(TIMESTAMP_TOLERANCE + 1), -TIMESTAMP_TOLERANCE, -60, 0, 61,
   TIMESTAMP_TOLERANCE, TIMESTAMP_TOLERANCE + 1}

TimestampHeaders(currentTime) ==
  {NoTimestamp, TextTimestamp} \cup {DecimalTimestamp(currentTime + d) : d \in TimestampOffsets}

\* isNaN(parseInt(timestamp, 10))
isNaN(timestamp) == ~timestamp.numeric
\* parseInt(timestamp, 10) of decimal digits
parseInt(timestamp) == timestamp.value

\* the X-Webhook-Signature header: absent, or a string of `length` characters
NoSignature == [present |-> FALSE, length |-> 0, mac |-> <<>>]

\* createHmac('sha256', secret).update(`${timestamp}.${payloadString}`).digest('hex')
hmac(secret, timestamp, payload) ==
  [present |-> TRUE, length |-> HexDigestLength, mac |-> <<secret, timestamp, payload>>]

\* a string that is no digest of anything, e.g. 'invalid_signature_12345'
Forged(length) == [present |-> TRUE, length |-> length, mac |-> <<"forged">>]

\* what a sender can put in the header for `timestamp` and `payload`: nothing,
\* the right digest, a digest under another secret, of another payload, of
\* another timestamp, or a forged string shorter than, as long as, or longer
\* than a digest
SignatureHeaders(timestamp, payload) ==
  {NoSignature, hmac(WEBHOOK_SECRET, timestamp, payload), hmac("wrong_secret", timestamp, payload)}
    \cup {hmac(WEBHOOK_SECRET, timestamp, p) : p \in Payloads}
    \cup {hmac(WEBHOOK_SECRET, DecimalTimestamp(timestamp.value - 1), payload)}
    \cup {Forged(HexDigestLength + d) : d \in {-41, 0, 1}}

HookRequests(currentTime) ==
  UNION {{[secret |-> s, signature |-> sig, timestamp |-> ts, body |-> p, at |-> currentTime] :
            s \in Secrets, sig \in SignatureHeaders(ts, p)} :
           ts \in TimestampHeaders(currentTime), p \in Payloads}

NoHookRequest ==
  [secret |-> NULL, signature |-> NoSignature, timestamp |-> NoTimestamp,
   body |-> NULL, at |-> 0]

\* res.status(..).json({ error }) or next()
Answer(status, error) == [status |-> status, error |-> error, next |-> FALSE]
CallNext == [status |-> 0, error |-> NULL, next |-> TRUE]

NoHook == [clock |-> HookStart, request |-> NoHookRequest, answer |-> Answer(0, NULL)]

\* Math.abs(currentTime - timestampNum)
timeDiff(currentTime, timestampNum) ==
  IF currentTime - timestampNum < 0 THEN timestampNum - currentTime
  ELSE currentTime - timestampNum

\* crypto.timingSafeEqual(a, b): a RangeError when the byte lengths differ
timingSafeEqual(a, b) ==
  IF a.length # b.length THEN "RangeError"
  ELSE IF a = b THEN "true" ELSE "false"

\* timeDiff > TIMESTAMP_TOLERANCE
outsideTolerance(currentTime, timestampNum) ==
  timeDiff(currentTime, timestampNum) > TIMESTAMP_TOLERANCE

\* steps 5 to 7 and the catch block: expected digest, constant-time comparison
checkSignature(request) ==
  LET expectedSignature == hmac(request.secret, request.timestamp, request.body)
      isValid == timingSafeEqual(request.signature, expectedSignature)
  IN CASE isValid = "RangeError" -> Answer(500, "Error verifying webhook signature")
       [] isValid = "false" -> Answer(401, "Invalid signature")
       [] OTHER -> CallNext

\* verifyWebhookSignature(req, res, next): what the request is answered
verify(request) ==
  CASE request.secret = NULL -> Answer(500, "Webhook secret not configured")
    [] request.secret # NULL /\ ~request.signature.present ->
         Answer(401, "Missing signature header (X-Webhook-Signature)")
    [] OTHER ->
         IF ~request.timestamp.present
           THEN Answer(401, "Missing timestamp header (X-Webhook-Timestamp)")
         ELSE IF isNaN(request.timestamp)
           THEN Answer(401, "Invalid timestamp format")
         ELSE IF outsideTolerance(request.at, parseInt(request.timestamp))
           THEN Answer(401, "Request timestamp too old or in future")
         ELSE checkSignature(request)

\* one webhook request passes through the middleware
VerifyWebhookSignature ==
  \E request \in HookRequests(hook.clock) :
    /\ hook' = [hook EXCEPT !.request = request, !.answer = verify(request)]
    /\ UNCHANGED <<accounts, transactions, pc, req, loc, res, charged, posts,
                   repository, now, creditCheck, bulk, batch, limiter, billing>>

\* Date.now() advances by a second
HookTick ==
  /\ hook.clock < HookStart + MaxHookTicks
  /\ hook' = [hook EXCEPT !.clock = @ + 1]
  /\ UNCHANGED <<accounts, transactions, pc, req, loc, res, charged, posts,
                 repository, now, creditCheck, bulk, batch, limiter, billing>>

\* ----------------------------------------------------------- the system
InitServices ==
  /\ accounts = InitAccounts
  /\ pc = [r \in Requests |-> "idle"]
  /\ req = [r \in Requests |-> NoReq]
  /\ loc = [r \in Requests |-> NoLoc]
  /\ res = [r \in Requests |-> NoRes]
  /\ charged = [t \in TxnIds |-> 0]
  /\ posts = [t \in TxnIds |-> 0]
  /\ repository \in Repositories
  /\ now = 0
  /\ statements = <<>>
  /\ gpc = [g \in Runs |-> "idle"]
  /\ gloc = [g \in Runs |-> NoGloc]
  /\ gres = [g \in Runs |-> NoGres]
  /\ bulk = NoBulk
  /\ batch = NoBatch
  /\ limiter = NoLimiter
  /\ hook = NoHook

InitLedger == InitServices /\ transactions = <<>>

Init == InitLedger /\ creditCheck = NoCreditCheck

Next ==
  \/ \E r \in Requests, w \in webhooks : AuthorizeExists(r, w)
  \/ \E r \in Requests : AuthorizeDuplicate(r)
  \/ \E r \in Requests : AuthorizeFindAccount(r)
  \/ \E r \in Requests : AuthorizeCreate(r)
  \/ \E r \in Requests : AuthorizeUpdateBalance(r)
  \/ \E r \in Requests : DeclineFindAccount(r)
  \/ \E r \in Requests : DeclineCreate(r)
  \/ \E r \in Requests, s \in settlements : SettleFind(r, s)
  \/ \E r \in Requests : AdjustFindAccount(r)
  \/ \E r \in Requests : AdjustUpdateBalance(r)
  \/ \E r \in Requests : AdjustKeepPending(r)
  \/ \E r \in Requests : SettlePost(r)
  \/ \E r \in Requests, p \in payments : PayFindAccount(r, p)
  \/ \E r \in Requests : PayCreate(r)

\* requests dispatched concurrently (the server as deployed)
Spec == Init /\ [][Next]_vars

\* requests handled one after the other: at most one is between awaits
NextSeq == Next /\ Cardinality(InFlight') <= 1
SpecSeq == Init /\ [][NextSeq]_vars

\* a store fault: the UPDATE accounts of an approved authorization fails
\* (connection lost, store unavailable); the handler's catch block answers
StoreFault(r) ==
  /\ pc[r] = "auth_update"
  /\ Return(r, Value(FALSE, "Internal server error", NULL))
  /\ UNCHANGED <<accounts, transactions, req, charged, posts, env, billing>>

NextFault == Next \/ \E r \in Requests : StoreFault(r)
SpecFault == Init /\ [][NextFault]_vars

\* settleTransaction after its balance adjustment was written: the
\* updateStatus that follows throws (the store fails, the connection drops)
\* and the catch block answers
SettleFault(r) ==
  /\ pc[r] \in {"adjust_status", "settle_post"}
  /\ loc[r].newBalance # NoAmount
  /\ Return(r, Value(FALSE, "Internal server error", NULL))
  /\ UNCHANGED <<accounts, transactions, req, charged, posts, env, billing>>

\* requests handled one after the other, a settlement may fail after its adjustment
NextSettleFault == Next \/ \E r \in Requests : SettleFault(r)
NextRetry == NextSettleFault /\ Cardinality(InFlight') <= 1
SpecRetry == Init /\ [][NextRetry]_vars

\* the ledger requests that run next to statement generation
billedWebhooks == {w \in webhooks : w.id = "t1"}
billedSettlements ==
  {s \in settlements : s.transaction_id = "t1" /\ s.final_amount \in {NoAmount, 1}}
billedPayments == {p \in payments : p.account_id = "a1"}

\* the ledger engines together with statement generation, within one instant
NextLink ==
  \/ \E r \in Requests, w \in billedWebhooks : AuthorizeExists(r, w)
  \/ \E r \in Requests : AuthorizeDuplicate(r)
  \/ \E r \in Requests : AuthorizeFindAccount(r)
  \/ \E r \in Requests : AuthorizeCreate(r)
  \/ \E r \in Requests : AuthorizeUpdateBalance(r)
  \/ \E r \in Requests : DeclineFindAccount(r)
  \/ \E r \in Requests : DeclineCreate(r)
  \/ \E r \in Requests, s \in billedSettlements : SettleFind(r, s)
  \/ \E r \in Requests : AdjustFindAccount(r)
  \/ \E r \in Requests : AdjustUpdateBalance(r)
  \/ \E r \in Requests : AdjustKeepPending(r)
  \/ \E r \in Requests : SettlePost(r)
  \/ \E r \in Requests, p \in billedPayments : PayFindAccount(r, p)
  \/ \E r \in Requests : PayCreate(r)
  \/ \E g \in Runs, a \in {"a1", "aX"} : GenFindAccount(g, a)
  \/ \E g \in Runs : GenCheckExisting(g)
  \/ \E g \in Runs : GenLastStatement(g)
  \/ \E g \in Runs : GenAggregate(g)
  \/ \E g \in Runs : GenInsert(g)
  \/ \E g \in Runs : GenLink(g)
SpecLink == Init /\ [][NextLink]_vars

\* the same with the clock
NextStmt ==
  \/ NextLink
  \/ Tick
SpecStmt == Init /\ [][NextStmt]_vars

\* the same with one request or run at a time
NextStmtSeq == NextStmt /\ Cardinality(InFlight') + Cardinality(Running') <= 1
SpecStmtSeq == Init /\ [][NextStmtSeq]_vars

\* authorizations one at a time, then one bulk settlement call on its own
bulkWebhooks == {w \in webhooks : w.id \in {"t1", "t4"}}

NextBulk ==
  \/ /\ bulk.pc = "idle" /\ InFlight = {}
     /\ \E r \in Requests, w \in bulkWebhooks : AuthorizeExists(r, w)
  \/ \E r \in Requests : AuthorizeDuplicate(r)
  \/ \E r \in Requests : AuthorizeFindAccount(r)
  \/ \E r \in Requests : AuthorizeCreate(r)
  \/ \E r \in Requests : AuthorizeUpdateBalance(r)
  \/ \E r \in Requests : DeclineFindAccount(r)
  \/ \E r \in Requests : DeclineCreate(r)
  \/ \E list \in BulkLists : BulkStart(list)
  \/ \E r \in Requests : BulkCall(r)
  \/ \E r \in Requests : AdjustFindAccount(r)
  \/ \E r \in Requests : AdjustUpdateBalance(r)
  \/ \E r \in Requests : AdjustKeepPending(r)
  \/ \E r \in Requests : SettlePost(r)
  \/ BulkCollect

SpecBulk == Init /\ [][NextBulk]_vars

\* one batch run of statement generation next to single-account runs and
\* the clock
NextBatch ==
  \/ BatchStart
  \/ \E g \in Runs : BatchCall(g)
  \/ BatchCollect
  \/ /\ Cardinality({h \in Runs : gpc[h] # "idle" /\ ~(batch.pc = "await" /\ batch.cur = h)})
          < MaxRuns - 1
     /\ \E g \in Runs, a \in {"a1", "a3"} : GenFindAccount(g, a)
  \/ \E g \in Runs : GenCheckExisting(g)
  \/ \E g \in Runs : GenLastStatement(g)
  \/ \E g \in Runs : GenAggregate(g)
  \/ \E g \in Runs : GenInsert(g)
  \/ \E g \in Runs : GenLink(g)
  \/ Tick
SpecBatch == Init /\ [][NextBatch]_vars

\* a transactions row as the tests of totals insert it
aggregatedRow(account_id, card_id, type, amount, status) ==
  [card_id |-> card_id, account_id |-> account_id, amount |-> amount,
   transaction_type |-> type, status |-> status]

\* such rows: every type on the billed account (payments with either sign),
\* a pending and a declined purchase, a posted purchase of another account
aggregatedRows ==
  << aggregatedRow("a1", "c1", "purchase", 1, "posted"),
     aggregatedRow("a1", "c1", "purchase", 2, "posted"),
     aggregatedRow("a1", "c1", "payment", -1, "posted"),
     aggregatedRow("a1", "c1", "payment", 2, "posted"),
     aggregatedRow("a1", "c1", "fee", 1, "posted"),
     aggregatedRow("a1", "c1", "fee", 2, "posted"),
     aggregatedRow("a1", "c1", "interest", 1, "posted"),
     aggregatedRow("a1", "c1", "interest", 2, "posted"),
     aggregatedRow("a1", "c1", "refund", 1, "posted"),
     aggregatedRow("a1", "c1", "adjustment", 1, "posted"),
     aggregatedRow("a1", "c1", "purchase", 2, "pending"),
     aggregatedRow("a1", "c1", "purchase", 2, "declined"),
     aggregatedRow("a2", "c3", "purchase", 2, "posted") >>

AggregatedId(k) == "x" \o ToString(k)
AggregatedIds == {AggregatedId(k) : k \in 1..MaxAggregated}

\* the transactions tables of up to MaxAggregated such rows (the ids are
\* uuids: which row carries which id makes no difference)
AggregatedTables ==
  UNION {{[id \in {AggregatedId(k) : k \in 1..n} |->
             LET d == aggregatedRows[f[CHOOSE k \in 1..n : AggregatedId(k) = id]] IN
               [NewRow([id |-> id, card_id |-> d.card_id,
                        account_id |-> d.account_id, amount |-> d.amount,
                        transaction_type |-> d.transaction_type,
                        status |-> d.status, previous_balance |-> 0,
                        new_balance |-> 0, decline_reason |-> NULL])
                  EXCEPT !.created_at = 0]] :
            f \in {h \in [1..n -> DOMAIN aggregatedRows] :
                     \A j, k \in 1..n : j <= k => h[j] <= h[k]}} :
         n \in 0..MaxAggregated}

\* statement generation alone, one run at a time, on a table of such rows
InitTotals ==
  /\ InitServices
  /\ creditCheck = NoCreditCheck
  /\ transactions \in AggregatedTables

NextTotals ==
  \/ /\ Running = {}
     /\ \E g \in Runs, a \in {"a1", "a2"} : GenFindAccount(g, a)
  \/ \E g \in Runs : GenCheckExisting(g)
  \/ \E g \in Runs : GenLastStatement(g)
  \/ \E g \in Runs : GenAggregate(g)
  \/ \E g \in Runs : GenInsert(g)
  \/ \E g \in Runs : GenLink(g)

SpecTotals == InitTotals /\ [][NextTotals]_vars

\* balances and the credit limit of the accounts the tests of the minimum
\* payment generate statements for
StatementBalances == {0, 150, 1000, 1249, 1250, 1251, 2000}
StatementCreditLimit == 5000

\* statement generation, with authorizations next to it, on accounts with
\* such balances
InitMinimum ==
  /\ \E b1 \in StatementBalances, b3 \in StatementBalances \cap {1000, 2000} :
       accounts = [InitAccounts EXCEPT
                     !["a1"].credit_limit = StatementCreditLimit,
                     !["a1"].current_balance = b1,
                     !["a3"].credit_limit = StatementCreditLimit,
                     !["a3"].current_balance = b3]
  /\ transactions = <<>>
  /\ pc = [r \in Requests |-> "idle"]
  /\ req = [r \in Requests |-> NoReq]
  /\ loc = [r \in Requests |-> NoLoc]
  /\ res = [r \in Requests |-> NoRes]
  /\ charged = [t \in TxnIds |-> 0]
  /\ posts = [t \in TxnIds |-> 0]
  /\ repository \in Repositories
  /\ now = 0
  /\ statements = <<>>
  /\ gpc = [g \in Runs |-> "idle"]
  /\ gloc = [g \in Runs |-> NoGloc]
  /\ gres = [g \in Runs |-> NoGres]
  /\ bulk = NoBulk
  /\ batch = NoBatch
  /\ creditCheck = NoCreditCheck
  /\ limiter = NoLimiter
  /\ hook = NoHook

NextMinimum ==
  \/ \E r \in Requests, w \in billedWebhooks : AuthorizeExists(r, w)
  \/ \E r \in Requests : AuthorizeDuplicate(r)
  \/ \E r \in Requests : AuthorizeFindAccount(r)
  \/ \E r \in Requests : AuthorizeCreate(r)
  \/ \E r \in Requests : AuthorizeUpdateBalance(r)
  \/ \E r \in Requests : DeclineFindAccount(r)
  \/ \E r \in Requests : DeclineCreate(r)
  \/ \E g \in Runs, a \in {"a1", "a3"} : GenFindAccount(g, a)
  \/ \E g \in Runs : GenCheckExisting(g)
  \/ \E g \in Runs : GenLastStatement(g)
  \/ \E g \in Runs : GenAggregate(g)
  \/ \E g \in Runs : GenInsert(g)
  \/ \E g \in Runs : GenLink(g)

SpecMinimum == InitMinimum /\ [][NextMinimum]_vars

\* the credit check alone, on every input of CreditChecks
InitCredit ==
  /\ InitLedger
  /\ creditCheck \in {c \in CreditChecks : c.current_balance <= c.credit_limit}

NextCredit == CreditCheck

SpecCredit == InitCredit /\ [][NextCredit]_vars

\* the rate limiter under requests of two IPs in any arrival order
NextRate ==
  \/ RateLimit
  \/ RateCleanup
  \/ RateTick

SpecRate == Init /\ [][NextRate]_vars

\* the signature check under every request of HookRequests
NextHook ==
  \/ VerifyWebhookSignature
  \/ HookTick

SpecHook == Init /\ [][NextHook]_vars

TypeOK ==
  /\ \A a \in AccountIds : accounts[a].current_balance \in Int
  /\ DOMAIN transactions \subseteq
       TxnIds \cup {PaymentId(r) : r \in Requests} \cup AggregatedIds

\* ------------------------------------------------------------ properties
Done(r) == pc[r] = "done"
Quiescent == InFlight = {}

\* completed deliveries of the webhook with transaction id `id`
Deliveries(id) ==
  {r \in Requests : Done(r) /\ req[r].op = "authorize" /\ req[r].id = id}

\* completed settle calls on `id` that answered settled = true
Settled(id) ==
  {r \in Requests : Done(r) /\ req[r].op = "settle" /\ req[r].id = id /\ res[r].ok}

C2_ConcurrentDuplicate ==
  \A id \in TxnIds : \A r, q \in Deliveries(id) :
    (r # q /\ ~req[r].isDuplicate /\ ~req[q].isDuplicate
       /\ cardFindById(webhookOf(id).card_id) # NullRow) =>
      /\ res[r].kind = "value" /\ res[q].kind = "value"
      /\ res[r].ok = res[q].ok
      /\ res[r].reason # "Internal server error"
      /\ res[q].reason # "Internal server error"
      /\ id \in DOMAIN transactions
      /\ charged[id] <= 1

C5_BalanceNonNegative ==
  \A a \in AccountIds : accounts[a].current_balance >= 0

\* a downward settlement adjustment that would have taken the balance below
\* zero was refused by the store and answered as an internal error
C5_Witness ==
  \E r \in Requests :
    /\ Done(r) /\ req[r].op = "settle" /\ ~res[r].ok
    /\ res[r].reason = "Internal server error"
    /\ req[r].amount < transactions[req[r].id].amount
    /\ accounts["a1"].current_balance + req[r].amount
         - transactions[req[r].id].amount < 0

C7_Delta(r) ==
  IF req[r].op = "authorize" /\ res[r].ok /\ ~req[r].isDuplicate
    THEN transactions[req[r].id].amount
    ELSE IF req[r].op = "settle" /\ res[r].ok /\ req[r].amount # NoAmount
      THEN req[r].amount - transactions[req[r].id].amount
      ELSE 0

C7_NonZeroFinal ==
  (Quiescent /\ \A r \in Requests : req[r].op = "settle" => req[r].amount # 0) =>
    accounts["a1"].current_balance
      = StartBalance + Sum([r \in Requests |-> C7_Delta(r)], Requests)

\* C7 witness: with requests handled one after the other, a pending
\* transaction was settled with a final amount different from its amount
C7_Witness ==
  /\ Quiescent
  /\ \E r \in Requests :
        /\ req[r].op = "settle" /\ res[r].ok
        /\ req[r].amount \notin {NoAmount, 0, transactions[req[r].id].amount}

\* C8: a settle call on an id that does not exist answers settled = false,
\* "Transaction not found"; on a posted or declined transaction it answers
\* settled = false, "Transaction already <status>"; in both cases the call
\* ends at once and leaves accounts and transactions as they were.
C8_RejectedSettle ==
  [][\A r \in Requests :
       (pc[r] = "idle" /\ pc'[r] # "idle" /\ req'[r].op = "settle") =>
         LET transaction == findById(req'[r].id) IN
           /\ transaction = NullRow =>
                /\ pc'[r] = "done"
                /\ res'[r] = Value(FALSE, "Transaction not found", NULL)
                /\ UNCHANGED <<accounts, transactions>>
           /\ (transaction # NullRow /\ transaction.status \in {"posted", "declined"}) =>
                /\ pc'[r] = "done"
                /\ res'[r] = Value(FALSE, "Transaction already " \o transaction.status, NULL)
                /\ UNCHANGED <<accounts, transactions>>]_vars

\* a settle call with a final amount was turned away for a missing
\* transaction, and another for a declined one
C8_Witness ==
  /\ \E r \in Requests :
        Done(r) /\ req[r].op = "settle" /\ res[r].reason = "Transaction not found"
  /\ \E r \in Requests :
        /\ Done(r) /\ req[r].op = "settle" /\ req[r].amount # NoAmount
        /\ res[r].reason = "Transaction already declined"
        /\ transactions[req[r].id].status = "declined"

GenDone(g) == gpc[g] = "done"

\* C11: an account has at most one statement per billing period.
C11_OneStatementPerPeriod ==
  \A a \in AccountIds : \A s1, s2 \in StatementsOf(a) :
    s1 # s2 =>
      Period(statements[s1].statement_date) # Period(statements[s2].statement_date)

\* C12: a generation call that makes its existing-statement check while the
\* account has a statement dated in the current period answers
\* generated = false, "Statement already exists"; neither this step nor the
\* account read before it inserts a statement or changes a transaction.
C12_SecondGenerationRejected ==
  [][\A g \in Runs :
       /\ (gpc[g] = "idle" /\ gpc'[g] # "idle") =>
            UNCHANGED <<statements, transactions, accounts>>
       /\ (/\ gpc[g] = "gen_existing" /\ gpc'[g] # "gen_existing"
           /\ \E id \in StatementsOf(gloc[g].account_id) :
                Period(statements[id].statement_date) = Period(now)) =>
            /\ gpc'[g] = "done"
            /\ gres'[g] = [generated |-> FALSE, reason |-> "Statement already exists",
                           statement |-> NULL]
            /\ UNCHANGED <<statements, transactions, accounts>>]_vars

\* a second call in the period of a generated statement, which linked a
\* posted transaction, was turned away
C12_Witness ==
  \E g, h \in Runs :
    /\ GenDone(g) /\ gres[g].generated
    /\ statements[gres[g].statement].counted # {}
    /\ Period(statements[gres[g].statement].statement_date) = Period(now)
    /\ GenDone(h) /\ ~gres[h].generated
    /\ gres[h].reason = "Statement already exists"
    /\ Cardinality(StatementsOf("a1")) = 1

C15_ValidApproved ==
  [][\A r \in Requests :
       LET a == loc[r].account_id
           amt == req[r].amount \div 100
       IN
       /\ (/\ pc[r] = "auth_account" /\ pc'[r] # "auth_account"
           /\ a \in DOMAIN accounts
           /\ accounts[a].status = "active"
           /\ accounts[a].credit_limit - accounts[a].current_balance >= amt
           /\ ~(/\ Truthy(cards[req[r].card_id].spending_limit)
                /\ amt > cards[req[r].card_id].spending_limit)) =>
            /\ pc'[r] = "auth_create"
            /\ loc'[r].previousBalance = accounts[a].current_balance
            /\ loc'[r].newBalance = accounts[a].current_balance + amt
       /\ (pc[r] = "auth_create" /\ pc'[r] # "auth_create") =>
            /\ pc'[r] = "auth_update"
            /\ DOMAIN transactions' = DOMAIN transactions \cup {req[r].id}
            /\ req[r].id \notin DOMAIN transactions
            /\ transactions'[req[r].id].status = "pending"
            /\ transactions'[req[r].id].transaction_type = "purchase"
            /\ transactions'[req[r].id].previous_balance = loc[r].previousBalance
            /\ transactions'[req[r].id].new_balance = loc[r].newBalance
       /\ (pc[r] = "auth_update" /\ pc'[r] # "auth_update") =>
            /\ res'[r].kind = "value" /\ res'[r].ok
            /\ accounts'[a].current_balance = loc[r].newBalance
            /\ accounts[a].current_balance = loc[r].previousBalance]_vars

C18_DeclineAudit ==
  [][\A r \in Requests :
       /\ (pc[r] = "idle" /\ pc'[r] = "done" /\ req'[r].op = "authorize") =>
            /\ res'[r] = Value(FALSE, "Card not found", NULL)
            /\ req'[r].card_id \notin DOMAIN cards
            /\ UNCHANGED <<transactions, accounts>>
       /\ (pc'[r] = "decline_account" /\ pc[r] # "decline_account") =>
            UNCHANGED <<transactions, accounts>>
       /\ (pc[r] = "decline_account" /\ pc'[r] # "decline_account") =>
            /\ pc'[r] = "decline_create"
            /\ UNCHANGED <<transactions, accounts>>
       /\ (pc[r] = "decline_create" /\ pc'[r] # "decline_create") =>
            LET id == req[r].id
                a == cards[req[r].card_id].account_id
            IN
            /\ pc'[r] = "done"
            /\ res'[r] = Value(FALSE, loc[r].reason, NULL)
            /\ id \notin DOMAIN transactions
            /\ DOMAIN transactions' = DOMAIN transactions \cup {id}
            /\ \A other \in DOMAIN transactions :
                 transactions'[other] = transactions[other]
            /\ transactions'[id].status = "declined"
            /\ transactions'[id].decline_reason = loc[r].reason
            /\ transactions'[id].account_id = a
            /\ transactions'[id].previous_balance = accounts[a].current_balance
            /\ transactions'[id].new_balance = accounts[a].current_balance
            /\ UNCHANGED accounts]_vars

\* a decline with a card left its audit row beside an approved purchase, and
\* a 'Card not found' decline left none
C18_Witness ==
  \E r1, r2 \in Requests :
    /\ Done(r1) /\ res[r1] = Value(FALSE, "Card not found", NULL)
    /\ req[r1].id \notin DOMAIN transactions
    /\ Done(r2) /\ res[r2].kind = "value" /\ ~res[r2].ok
    /\ req[r2].op = "authorize" /\ ~req[r2].isDuplicate
    /\ req[r2].id \in DOMAIN transactions
    /\ LET t == transactions[req[r2].id] IN
         /\ t.status = "declined" /\ t.decline_reason = res[r2].reason
         /\ t.previous_balance = t.new_balance
         /\ t.previous_balance = accounts[t.account_id].current_balance
         /\ t.previous_balance > 0

\* C19: an authorization on an active card whose account is suspended or
\* closed is declined 'Account not active', whatever the amount and the
\* available credit, and an authorization on an active account is never
\* declined with that reason.
C19_AccountNotActive ==
  \A r \in Requests :
    (/\ Done(r) /\ req[r].op = "authorize" /\ ~req[r].isDuplicate
     /\ res[r].kind = "value"
     /\ req[r].card_id \in DOMAIN cards
     /\ cards[req[r].card_id].status = "active") =>
      LET a == accounts[cards[req[r].card_id].account_id] IN
        /\ a.status \in {"suspended", "closed"} =>
             res[r] = Value(FALSE, "Account not active", NULL)
        /\ a.status = "active" => res[r].reason # "Account not active"

C16_CreditCheck ==
  creditCheck.pc = "done" =>
    (creditCheck.declined <=>
       creditCheck.credit_limit - creditCheck.current_balance < creditCheck.amount)

\* C21: a delivery that finds its transaction id recorded answers
\* approved = true when the recorded status is pending or posted and
\* approved = false when it is declined, and neither of its steps inserts a
\* row or changes a status or a balance, whatever the card, account and
\* credit state are by then.
C21_RedeliveryFrame ==
  [][\A r \in Requests :
       /\ (/\ pc[r] = "idle" /\ pc'[r] # "idle" /\ req'[r].op = "authorize"
           /\ req'[r].id \in DOMAIN transactions) =>
            /\ pc'[r] = "auth_duplicate"
            /\ UNCHANGED <<transactions, accounts>>
       /\ (pc[r] = "auth_duplicate" /\ pc'[r] # "auth_duplicate") =>
            /\ pc'[r] = "done"
            /\ res'[r].kind = "value"
            /\ res'[r].ok = (transactions[req[r].id].status \in {"pending", "posted"})
            /\ transactions[req[r].id].status = "declined" => ~res'[r].ok
            /\ UNCHANGED <<transactions, accounts>>]_vars

\* a purchase that was approved and then posted was delivered again when the
\* available credit no longer covers it, and was answered approved
C21_Witness ==
  \E r \in Requests :
    /\ Done(r) /\ req[r].op = "authorize" /\ req[r].isDuplicate
    /\ res[r].kind = "value" /\ res[r].ok
    /\ transactions[req[r].id].status = "posted"
    /\ LET a == accounts[transactions[req[r].id].account_id] IN
         a.credit_limit - a.current_balance < req[r].amount \div 100

\* C22: for an existing account with balance b and a payment amount a > 0,
\* processPayment sets current_balance to max(0, b - a) and creates exactly
\* one transaction of type payment, status posted, amount -a,
\* previous_balance b and new_balance max(0, b - a) (requests handled one
\* at a time).
C22_PaymentEffect ==
  [][\A r \in Requests :
       (pc[r] = "pay_create" /\ pc'[r] # "pay_create") =>
         LET acct == req[r].account_id
             b == accounts[acct].current_balance
             a == req[r].amount
             id == req[r].id
         IN
         /\ pc'[r] = "done" /\ res'[r].kind = "value"
         /\ accounts'[acct].current_balance = Max(0, b - a)
         /\ DOMAIN transactions' = DOMAIN transactions \cup {id}
         /\ id \notin DOMAIN transactions
         /\ transactions'[id].transaction_type = "payment"
         /\ transactions'[id].status = "posted"
         /\ transactions'[id].amount = 0 - a
         /\ transactions'[id].previous_balance = b
         /\ transactions'[id].new_balance = Max(0, b - a)]_vars

\* C23: processPayment for an account id that does not exist fails with the
\* error 'Account not found' (it throws, it does not return a decline),
\* creates no transaction row and changes no account.
C23_PaymentAccountNotFound ==
  [][\A r \in Requests :
       (/\ pc[r] = "idle" /\ pc'[r] # "idle" /\ req'[r].op = "pay"
        /\ req'[r].account_id \notin DOMAIN accounts) =>
         /\ pc'[r] = "done"
         /\ res'[r].kind = "throw" /\ res'[r].reason = "Account not found"
         /\ UNCHANGED <<transactions, accounts>>]_vars

\* a payment on an unknown account was rejected after a purchase had been
\* approved: the purchase row and the balance are as the purchase left them
C23_Witness ==
  \E r \in Requests :
    /\ Done(r) /\ req[r].op = "pay" /\ req[r].account_id \notin DOMAIN accounts
    /\ res[r] = Throw("Account not found")
    /\ DOMAIN transactions = {"t1"}
    /\ accounts["a1"].current_balance = transactions["t1"].new_balance
    /\ transactions["t1"].new_balance > 0

\* C24: a settle call on a pending transaction with no final_amount, or
\* with final_amount equal to the authorized amount, goes straight to the
\* status write, answers settled = true, sets the status to posted with
\* posted_at stamped, and leaves the account's current_balance and the
\* transaction's amount unchanged.
C24_SettleWithoutAdjustment ==
  [][\A r \in Requests :
       /\ (/\ pc[r] = "idle" /\ pc'[r] # "idle" /\ req'[r].op = "settle"
           /\ req'[r].id \in DOMAIN transactions
           /\ transactions[req'[r].id].status = "pending"
           /\ req'[r].amount \in {NoAmount, transactions[req'[r].id].amount}) =>
            /\ pc'[r] = "settle_post"
            /\ UNCHANGED <<transactions, accounts>>
       /\ (/\ pc[r] = "settle_post" /\ pc'[r] # "settle_post"
           /\ req[r].amount \in {NoAmount, transactions[req[r].id].amount}) =>
            LET id == req[r].id IN
            /\ pc'[r] = "done"
            /\ res'[r] = Value(TRUE, NULL, id)
            /\ transactions'[id].status = "posted"
            /\ transactions'[id].posted_at = now
            /\ transactions'[id].posted_at # NoTime
            /\ transactions'[id].amount = transactions[id].amount
            /\ DOMAIN transactions' = DOMAIN transactions
            /\ UNCHANGED accounts]_vars

\* a settlement with final_amount equal to the authorized amount was
\* accepted: the purchase is posted, stamped, and the balance is the one the
\* authorization left
C24_Witness ==
  \E r \in Requests :
    /\ Done(r) /\ req[r].op = "settle" /\ res[r].kind = "value" /\ res[r].ok
    /\ req[r].amount = transactions[req[r].id].amount
    /\ transactions[req[r].id].status = "posted"
    /\ transactions[req[r].id].posted_at # NoTime
    /\ accounts[transactions[req[r].id].account_id].current_balance
         = transactions[req[r].id].new_balance

\* the items of the bulk call are passed to settleTransaction one by one in
\* list order, each after the one before it has returned
BulkInOrder ==
  /\ Len(bulk.called) <= Len(bulk.list)
  /\ bulk.called = SubSeq(bulk.list, 1, Len(bulk.called))
  /\ Len(bulk.outcomes) = Len(bulk.called) - (IF bulk.pc = "await" THEN 1 ELSE 0)
  /\ bulk.pc = "done" => bulk.called = bulk.list

\* settled_count and failed_count count the items that returned settled =
\* true and settled = false
BulkCounts ==
  /\ bulk.settled = Cardinality({k \in DOMAIN bulk.outcomes : bulk.outcomes[k]})
  /\ bulk.failed = Cardinality({k \in DOMAIN bulk.outcomes : ~bulk.outcomes[k]})
  /\ bulk.pc = "done" => bulk.settled + bulk.failed = Len(bulk.list)

\* C25 as claimed: a bulk call processes every item in list order, its counts
\* add up to the length of the list, no failing item stops the loop, and of
\* two items with the same transaction id one is settled and one fails.
C25_BulkSettleAsClaimed ==
  /\ BulkInOrder
  /\ BulkCounts
  /\ bulk.pc = "done" =>
       \A j, k \in DOMAIN bulk.list :
         (j < k /\ bulk.list[j].transaction_id = bulk.list[k].transaction_id) =>
           bulk.outcomes[j] # bulk.outcomes[k]

\* C25 amended: as claimed, with every item deciding on its own: an item is
\* settled exactly when its transaction was pending at the call and no
\* earlier item of the list settled it; so an id listed twice is settled
\* once and failed once when its transaction was pending, and failed twice
\* when it was not found or not pending.
C25_BulkSettle ==
  /\ BulkInOrder
  /\ BulkCounts
  /\ \A k \in DOMAIN bulk.outcomes :
       bulk.outcomes[k] <=>
         /\ bulk.list[k].transaction_id \in bulk.pendingAtStart
         /\ \A j \in 1..(k - 1) :
              bulk.list[j].transaction_id = bulk.list[k].transaction_id =>
                ~bulk.outcomes[j]

\* a bulk call listed a pending purchase twice, the first time with a lower
\* final amount: one item settled, one failed
C25_Witness ==
  /\ bulk.pc = "done" /\ Len(bulk.list) = 2
  /\ bulk.list[1].transaction_id = bulk.list[2].transaction_id
  /\ bulk.list[1].transaction_id \in bulk.pendingAtStart
  /\ bulk.list[1].final_amount # NoAmount
  /\ bulk.outcomes = <<TRUE, FALSE>>
  /\ bulk.settled = 1 /\ bulk.failed = 1

\* the statement rows inserted by the calls of the batch run
BatchStatements ==
  {id \in DOMAIN statements : \E k \in DOMAIN batch.attempted : id = BatchStatementId(k)}

\* C26: every statement a batch run of generateMonthlyStatements creates
\* belongs to an account whose statement_closing_day is the day of the month
\* the run read and whose status is active; accounts with another closing
\* day, suspended or closed get no statement from the run.
C26_OnlyEligibleAccounts ==
  /\ batch.pc # "idle" => batch.today \in {DayOfMonth(t) : t \in 0..now}
  /\ \A id \in BatchStatements :
       /\ accounts[statements[id].account_id].statement_closing_day = batch.today
       /\ accounts[statements[id].account_id].status = "active"
  /\ \A a \in AccountIds :
       (accounts[a].statement_closing_day # batch.today
          \/ accounts[a].status \in {"suspended", "closed"}) =>
         ~\E id \in BatchStatements : statements[id].account_id = a

\* a finished batch run generated a statement while an active account
\* closing on another day, a suspended and a closed account closing today
\* got none
C26_Witness ==
  /\ batch.pc = "done" /\ batch.generated >= 1
  /\ \E a \in AccountIds :
       /\ accounts[a].status = "active"
       /\ accounts[a].statement_closing_day # batch.today
       /\ StatementsOf(a) = {}
  /\ \E a \in AccountIds :
       /\ accounts[a].status = "suspended"
       /\ accounts[a].statement_closing_day = batch.today
       /\ StatementsOf(a) = {}
  /\ \E a \in AccountIds :
       /\ accounts[a].status = "closed"
       /\ accounts[a].statement_closing_day = batch.today
       /\ StatementsOf(a) = {}

OfType(ids, type) == {id \in ids : transactions[id].transaction_type = type}

\* the absolute value
Abs(a) == IF a < 0 THEN 0 - a ELSE a

\* C28: in every statement total_purchases is the sum of the amounts of the
\* aggregated purchases, total_payments the sum of the absolute amounts of
\* the payments, total_fees and total_interest the sums of the fees and of
\* the interest; refunds and adjustments add to no total, and no
\* transactions give four totals of 0.
C28_TotalsByType ==
  \A s \in DOMAIN statements :
    LET ids == statements[s].counted
        amounts == [id \in ids |-> transactions[id].amount]
        absolute == [id \in ids |-> Abs(transactions[id].amount)]
    IN
      /\ statements[s].total_purchases = Sum(amounts, OfType(ids, "purchase"))
      /\ statements[s].total_payments = Sum(absolute, OfType(ids, "payment"))
      /\ statements[s].total_fees = Sum(amounts, OfType(ids, "fee"))
      /\ statements[s].total_interest = Sum(amounts, OfType(ids, "interest"))
      /\ (ids \subseteq OfType(ids, "refund") \cup OfType(ids, "adjustment")) =>
            /\ statements[s].total_purchases = 0
            /\ statements[s].total_payments = 0
            /\ statements[s].total_fees = 0
            /\ statements[s].total_interest = 0

\* a statement aggregated a payment stored with a negative amount, a refund
\* or adjustment, and a fee: the payment counts with its absolute value, the
\* refund nowhere
C28_Witness ==
  \E s \in DOMAIN statements :
    LET ids == statements[s].counted IN
      /\ \E id \in OfType(ids, "payment") : transactions[id].amount < 0
      /\ OfType(ids, "refund") \cup OfType(ids, "adjustment") # {}
      /\ OfType(ids, "fee") # {}
      /\ statements[s].total_payments = 1
      /\ statements[s].total_purchases = 0
      /\ statements[s].total_fees > 0

\* C29: the window query of a run collects only transactions of the account
\* whose status is posted when it is made; the totals of the statement the
\* run inserts are those of the collected transactions, and the run links
\* exactly the collected transactions to it.  A transaction that is pending
\* or declined at aggregation time is neither counted nor linked.
C29_OnlyPosted ==
  [][\A g \in Runs :
       /\ (gpc[g] = "gen_aggregate" /\ gpc'[g] # "gen_aggregate") =>
            \A id \in gloc'[g].transactions :
              /\ transactions[id].status = "posted"
              /\ transactions[id].account_id = gloc[g].account_id
       /\ (gpc[g] = "gen_insert" /\ gpc'[g] = "gen_link") =>
            LET s == statements'[gloc'[g].statementId] IN
              /\ s.counted = gloc[g].transactions
              /\ s.total_purchases = totalOf(gloc[g].transactions, "purchase")
              /\ s.total_payments = totalOf(gloc[g].transactions, "payment")
              /\ s.total_fees = totalOf(gloc[g].transactions, "fee")
              /\ s.total_interest = totalOf(gloc[g].transactions, "interest")
       /\ (gpc[g] = "gen_link" /\ gpc'[g] # "gen_link") =>
            \A id \in DOMAIN transactions :
              transactions'[id].statement_id # transactions[id].statement_id =>
                /\ id \in gloc[g].transactions
                /\ transactions'[id].statement_id = gloc[g].statementId
     ]_vars

\* a run returned a statement that counts and links a posted transaction
\* of the account while a pending or declined transaction of the same
\* account stays out of it
C29_Witness ==
  \E g \in Runs :
    /\ gpc[g] = "done" /\ gres[g].generated
    /\ LET s == statements[gres[g].statement] IN
         /\ \E id \in s.counted : transactions[id].statement_id = s.id
         /\ \E id \in DOMAIN transactions :
              /\ transactions[id].account_id = s.account_id
              /\ transactions[id].status \in {"pending", "declined"}
              /\ id \notin s.counted
              /\ transactions[id].statement_id = NULL

\* C30: the minimum_payment_due of every statement (in cents) is the larger
\* of 25.00 and 2% of the balance the run read from the account: 25.00 for
\* balances up to 1250, 2% of the balance above (1000 gives 25.00, 2000
\* gives 40.00).
C30_MinimumPayment ==
  \A s \in DOMAIN statements :
    LET balance == statements[s].closing_balance
        due == statements[s].minimum_payment_due
    IN
      /\ due * 100 = Max(2500 * 100, 2 * Cents(balance))
      /\ balance <= 1250 => due = 2500
      /\ balance > 1250 => due = 2 * balance
      /\ balance = 1000 => due = 2500
      /\ balance = 2000 => due = 4000

\* one statement was generated at a balance of at most 1250 with 25.00 due
\* and another at a balance above 1250 with 2% of it due
C30_Witness ==
  \E s, t \in DOMAIN statements :
    /\ statements[s].closing_balance <= 1250
    /\ statements[s].closing_balance > 0
    /\ statements[s].minimum_payment_due = 2500
    /\ statements[t].closing_balance > 1250
    /\ statements[t].minimum_payment_due = 2 * statements[t].closing_balance
    /\ statements[t].minimum_payment_due > 2500
\* the statement of the account dated latest before statement s, or NullRow
EarlierStatement(s) ==
  LET earlier == {e \in StatementsOf(statements[s].account_id) :
                    statements[e].statement_date < statements[s].statement_date}
  IN IF earlier = {} THEN NullRow
     ELSE statements[CHOOSE e \in earlier :
            \A o \in earlier : statements[o].statement_date <= statements[e].statement_date]

\* previous_balance of every statement is the closing_balance of the
\* account's most recent earlier statement, or 0 when there is none
BalanceChain ==
  \A s \in DOMAIN statements :
    statements[s].previous_balance =
      IF EarlierStatement(s) = NullRow THEN 0 ELSE EarlierStatement(s).closing_balance

C32_StatementLink ==
  [][/\ \A id \in DOMAIN transactions' \ DOMAIN transactions :
          transactions'[id].statement_id = NULL
     /\ \A id \in DOMAIN transactions :
          /\ id \in DOMAIN transactions'
          /\ transactions'[id].statement_id # transactions[id].statement_id =>
               \E g \in Runs : gpc[g] = "gen_link" /\ gpc'[g] = "done"
     /\ \A g \in Runs :
          (gpc[g] = "gen_link" /\ gpc'[g] = "done") =>
            /\ gres'[g].generated
            /\ {id \in DOMAIN transactions' :
                  transactions'[id].statement_id = gres'[g].statement}
                 = statements[gres'[g].statement].counted
    ]_vars

\* a run has returned a statement that aggregated a posted purchase, which
\* now carries the statement's id
C32_Witness ==
  \E g \in Runs :
    /\ gpc[g] = "done" /\ gres[g].generated
    /\ statements[gres[g].statement].counted # {}
    /\ \A id \in statements[gres[g].statement].counted :
         transactions[id].statement_id = gres[g].statement

\* requests of `ip` answered since its entry was created
Counted(l, ip) == l.passed[ip] + l.blocked[ip]

\* C33: within one window of one IP exactly the first max requests reach the
\* handler and every further one is answered 429, in whatever order the
\* requests of the IPs arrive; a request changes the entry of its own IP
\* only; X-RateLimit-Remaining is max(0, max - requests counted so far).
C33_RateLimit ==
  /\ [](\A ip \in IPs :
          limiter.store[ip] # NoEntry =>
            /\ limiter.passed[ip] = IF limiter.store[ip].count <= RateMax
                                     THEN limiter.store[ip].count ELSE RateMax
            /\ limiter.blocked[ip] = Max(0, limiter.store[ip].count - RateMax))
  /\ [][\A ip \in IPs :
          (limiter'.store[ip] # limiter.store[ip] /\ limiter'.store[ip] # NoEntry) =>
            /\ limiter'.last.ip = ip
            /\ limiter'.last.next = (Counted(limiter', ip) <= RateMax)
            /\ limiter'.last.status = IF Counted(limiter', ip) <= RateMax THEN 0 ELSE 429
            /\ limiter'.last.remaining = Max(0, RateMax - Counted(limiter', ip))
            /\ \A other \in IPs \ {ip} :
                 /\ limiter'.store[other] = limiter.store[other]
                 /\ limiter'.passed[other] = limiter.passed[other]
                 /\ limiter'.blocked[other] = limiter.blocked[other]]_vars

\* one IP has used up its window and was blocked while the other IP, in a
\* window of its own, is still being passed
C33_Witness ==
  /\ limiter.passed["ip1"] = RateMax /\ limiter.blocked["ip1"] >= 1
  /\ limiter.store["ip2"] # NoEntry /\ limiter.passed["ip2"] = 1 /\ limiter.blocked["ip2"] = 0
  /\ limiter.last.ip = "ip2" /\ limiter.last.next

\* the request carried both headers, for a server with its secret configured
BothHeaders(request) ==
  request.secret # NULL /\ request.signature.present /\ request.timestamp.present

\* C34: a request with both headers and a timestamp within tolerance whose
\* signature is not the expected HMAC, whatever its length, is answered 401
\* 'Invalid signature' and the handler is not invoked.
C34_InvalidSignature ==
  (/\ BothHeaders(hook.request)
   /\ hook.request.timestamp.numeric
   /\ ~outsideTolerance(hook.request.at, hook.request.timestamp.value)
   /\ hook.request.signature #
        hmac(hook.request.secret, hook.request.timestamp, hook.request.body))
    => /\ hook.answer.status = 401
       /\ hook.answer.error = "Invalid signature"
       /\ ~hook.answer.next

\* the signature is the digest of the request's own timestamp and body
ValidSignature(request) ==
  request.signature = hmac(request.secret, request.timestamp, request.body)

\* C35: with a signature that is valid for its timestamp, a request whose
\* timestamp is more than 300 seconds in the past, or in the future, is
\* answered 401 and does not reach the handler; one whose timestamp is up to
\* 300 seconds in the past reaches the handler.
C35_TimestampWindow ==
  (/\ BothHeaders(hook.request)
   /\ hook.request.timestamp.numeric
   /\ ValidSignature(hook.request))
    => LET age == hook.request.at - hook.request.timestamp.value
       IN IF age > TIMESTAMP_TOLERANCE \/ age < 0
            THEN hook.answer.status = 401 /\ ~hook.answer.next
            ELSE hook.answer.next

Mutations ==
  {r \in Requests : Done(r) /\ C7_Delta(r) # 0}

NonDeclined(account_id) ==
  {id \in DOMAIN transactions :
     transactions[id].account_id = account_id /\ transactions[id].status # "declined"}

====
